---- MODULE Spec2Model ----
(***************************************************************************)
(* Model of imgProcessor/camera/CameraCalibration.py: the calibration      *)
(* store (time-indexed coefficient tables) and the correction pipeline,    *)
(* and of imgProcessor/interpolate/interpolate2dStructuredIDW.py.          *)
(*                                                                         *)
(* Encoding of Python values                                               *)
(*   date string  "%d %b %y - %H:%M"  -> <<d, b, y, H, M>>, None -> <<>>   *)
(*   struct_time                      -> <<year, mon, mday, hour, min>>    *)
(*   list (a category sequence)       -> sequence, index 0 is element 1    *)
(*   dict (insertion ordered)         -> sequence of <<key, value>>        *)
(*   calibration record [date, ...]   -> tuple, a "none" result -> <<>>    *)
(*   ndarray                          -> [shape |-> .., data |-> ..]       *)
(*   None payload / float / tuple     -> [none |-> TRUE] / [val |-> ..] /  *)
(*                                       [tuple |-> <<.., ..>>]            *)
(*   light None                       -> "None"                            *)
(*   float (a pixel, a coefficient)   -> <<n, d>>, the fraction n/d in     *)
(*                                       lowest terms; d = 0 for nan and   *)
(*                                       the infinities                    *)
(*   image in the pipeline            -> [shape, data, via]: via lists the *)
(*                                       numeric collaborators applied     *)
(***************************************************************************)
EXTENDS Integers, Sequences, FiniteSets, TLC

VARIABLES
    coeffs,                 \* self.coeffs
    noise_level_function,   \* self.noise_level_function
    last,                   \* the most recent call and how it came back
    pc,                     \* position inside correct(), "idle" outside
    args,                   \* arguments and locals of the running correct()
    image,                  \* the local image of the running correct()
    ran,                    \* stages the running or last correct() executed
    disk,                   \* the files profiles are saved to: name -> content
    idw                     \* a running interpolate2dStructuredIDW, else None

pipe == <<noise_level_function, pc, args, image, ran>>
vars == <<coeffs, last, pipe, disk, idw>>

----------------------------------------------------------------------------
(* Bounds *)

MaxMonth == 3
MaxRecords == 2

----------------------------------------------------------------------------
(* Python values *)

None == <<>>
NoLight == "None"
NoneV == [none |-> TRUE]

\* isinstance(x, np.ndarray)
IsArray(x) == "shape" \in DOMAIN x

\* l[i] with Python index i (negative counts from the end); caller checks InRange
InRange(l, i) == IF i >= 0 THEN i < Len(l) ELSE -i <= Len(l)
At(l, i) == IF i >= 0 THEN l[i + 1] ELSE l[Len(l) + i + 1]

\* list.insert(i, x) for 0 <= i <= len(l)
ListInsert(l, i, x) == SubSeq(l, 1, i) \o <<x>> \o SubSeq(l, i + 1, Len(l))

\* list.pop(i) for 0 <= i < len(l): the remaining list
ListPop(l, i) == SubSeq(l, 1, i) \o SubSeq(l, i + 2, Len(l))

\* dict as insertion-ordered sequence of <<key, value>>
DictKeys(d) == [i \in 1..Len(d) |-> d[i][1]]
DictHas(d, k) == \E i \in 1..Len(d) : d[i][1] = k
DictGet(d, k) == d[CHOOSE i \in 1..Len(d) : d[i][1] = k][2]
DictSet(d, k, v) ==
    IF DictHas(d, k)
    THEN [i \in 1..Len(d) |-> IF d[i][1] = k THEN <<k, v>> ELSE d[i]]
    ELSE Append(d, <<k, v>>)

----------------------------------------------------------------------------
(* Dates *)

MonthNames == <<"Jan", "Feb", "Mar", "Apr", "May", "Jun",
                "Jul", "Aug", "Sep", "Oct", "Nov", "Dec">>

DaysInMonth(m, year) ==
    IF m = 2 THEN (IF year % 4 = 0 THEN 29 ELSE 28)
    ELSE IF m \in {4, 6, 9, 11} THEN 30 ELSE 31

\* %y: 69..99 -> 1969..1999, 0..68 -> 2000..2068
Century(y) == IF y >= 69 THEN 1900 + y ELSE 2000 + y

MonthIndex(b) == CHOOSE m \in 1..12 : MonthNames[m] = b

\* time.strptime(date, DATE_FORMAT) raises ValueError unless this holds
strptimeOk(s) ==
    /\ Len(s) = 5
    /\ \E m \in 1..12 : MonthNames[m] = s[2]
    /\ s[3] \in 0..99
    /\ s[1] \in 1..DaysInMonth(MonthIndex(s[2]), Century(s[3]))
    /\ s[4] \in 0..23
    /\ s[5] \in 0..59

strptime(s) == <<Century(s[3]), MonthIndex(s[2]), s[1], s[4], s[5]>>

\* time.strftime(DATE_FORMAT, date_struct)
_toDateStr(t) == <<t[3], MonthNames[t[2]], t[1] % 100, t[4], t[5]>>

\* struct_time comparison is tuple comparison
RECURSIVE TupleLess(_, _, _)
TupleLess(a, b, i) ==
    IF i > Len(a) THEN FALSE
    ELSE IF a[i] < b[i] THEN TRUE
    ELSE IF a[i] > b[i] THEN FALSE
    ELSE TupleLess(a, b, i + 1)

DateLess(a, b) == TupleLess(a, b, 1)

\* _toDate raises ValueError exactly when this is false
_toDateOk(date) == date = None \/ strptimeOk(date)

\* hypothetical slip: a missing date resolves to the epoch
_toDate_epoch(date, now) ==
    IF date = None THEN <<1970, 1, 1, 0, 0>> ELSE strptime(date)

\* now: the value time.localtime() returns at the call
_toDate(date, now) == IF date = None THEN now ELSE strptime(date)

\* inputs
BadDate == <<31, "Feb", 20, 0, 0>>
ValidDateStrings == {<<1, MonthNames[m], 20, 0, 0>> : m \in 1..MaxMonth}
DateArgs == ValidDateStrings \cup {None, BadDate}
\* the values time.localtime() takes during the calls explored
Clock == {strptime(<<1, "Feb", 20, 0, 0>>)}

----------------------------------------------------------------------------
(* DateIndex *)

\* hypothetical slip: ignore the dates and append at the end
_insertDateIndex_append(date, l) == Len(l)

\* next((i for i, n in enumerate(l) if n[0] < date), len(l)), 0-based
_insertDateIndex(date, l) ==
    IF \E i \in 1..Len(l) : DateLess(l[i][1], date)
    THEN (CHOOSE i \in 1..Len(l) :
             /\ DateLess(l[i][1], date)
             /\ \A j \in 1..(i - 1) : ~DateLess(l[j][1], date)) - 1
    ELSE Len(l)

\* outcome of a call: what it raised ("none" if it returned) and its value
Returned(v) == [raised |-> "none", ret |-> v]
Raised(e) == [raised |-> e, ret |-> None]

\* hypothetical slip: the date is ignored and the first record returned
_getFromDate_newest(l, date, now) ==
    IF InRange(l, 0) THEN Returned(At(l, 0)) ELSE Raised("IndexError")

\* hypothetical slip: an unparseable date falls back to the last record
_getFromDate_oldest(l, date, now) ==
    IF ~_toDateOk(date)
    THEN IF InRange(l, -1) THEN Returned(At(l, -1)) ELSE Raised("IndexError")
    ELSE LET i == _insertDateIndex(_toDate(date, now), l) - 1
         IN IF i = -1
            THEN IF InRange(l, 0) THEN Returned(At(l, 0))
                 ELSE Raised("IndexError")
            ELSE Returned(At(l, i))

_getFromDate(l, date, now) ==
    IF ~_toDateOk(date)
    THEN \* except (ValueError, TypeError): return l[0]
         IF InRange(l, 0) THEN Returned(At(l, 0)) ELSE Raised("IndexError")
    ELSE LET i == _insertDateIndex(_toDate(date, now), l) - 1
         IN IF i = -1
            THEN IF InRange(l, 0) THEN Returned(At(l, 0))
                 ELSE Raised("IndexError")
            ELSE Returned(At(l, i))

----------------------------------------------------------------------------
(* CameraCalibration: the profile *)

SpectrumKeyed == {"flat field", "lens", "psf", "balance"}
Flat == {"dark current", "noise"}
Categories == Flat \cup SpectrumKeyed

DefaultDepth == 16

\* CameraCalibration.__init__: self.coeffs
InitCoeffs ==
    [k \in {"name", "depth", "light spectra", "dark current", "flat field",
            "lens", "noise", "psf", "shape", "balance"} |->
        CASE k = "name" -> "no camera"
          [] k = "depth" -> DefaultDepth
          [] k = "shape" -> None
          [] OTHER -> <<>>]

\* outcome of a method: the profile it leaves, what it raised, its value
Ok(c, v) == [c |-> c, raised |-> "none", ret |-> v]
Fail(c, e) == [c |-> c, raised |-> e, ret |-> None]

\* every sequence of the category: the list itself, or the dict's values
Sequences(c, name) ==
    IF name \in Flat THEN {c[name]}
    ELSE {c[name][i][2] : i \in 1..Len(c[name])}

RECURSIVE SumLen(_, _)
SumLen(d, i) == IF i > Len(d) THEN 0 ELSE Len(d[i][2]) + SumLen(d, i + 1)

TotalRecords(c) ==
    Len(c["dark current"]) + Len(c["noise"]) + SumLen(c["flat field"], 1)
    + SumLen(c["lens"], 1) + SumLen(c["psf"], 1) + SumLen(c["balance"], 1)

\* hypothetical slip: the spectrum is appended without the membership test
_registerLight_always(c, light_spectrum) ==
    [c EXCEPT !["light spectra"] = Append(@, light_spectrum)]

_registerLight(c, light_spectrum) ==
    IF \E i \in 1..Len(c["light spectra"]) :
           c["light spectra"][i] = light_spectrum
    THEN c
    ELSE [c EXCEPT !["light spectra"] = Append(@, light_spectrum)]

\* hypothetical slip: checking an array registers a spectrum for it
_checkShape_registering(c, array) ==
    IF ~IsArray(array) THEN Ok(c, None)
    ELSE IF c["shape"] = None
    THEN Ok([c EXCEPT !["shape"] = array.shape,
                      !["light spectra"] = Append(@, "image")], None)
    ELSE IF SubSeq(c["shape"], 1, 2) # SubSeq(array.shape, 1, 2)
    THEN Fail(c, "Exception")
    ELSE Ok([c EXCEPT !["light spectra"] = Append(@, "image")], None)

\* hypothetical slip: compare the whole shapes instead of the leading two axes
_checkShape_whole(c, array) ==
    IF ~IsArray(array) THEN Ok(c, None)
    ELSE IF c["shape"] = None
    THEN Ok([c EXCEPT !["shape"] = array.shape], None)
    ELSE IF c["shape"] # array.shape
    THEN Fail(c, "Exception")
    ELSE Ok(c, None)

_checkShape(c, array) ==
    IF ~IsArray(array) THEN Ok(c, None)
    ELSE IF c["shape"] = None
    THEN Ok([c EXCEPT !["shape"] = array.shape], None)
    ELSE IF SubSeq(c["shape"], 1, 2) # SubSeq(array.shape, 1, 2)
    THEN Fail(c, "Exception")
    ELSE Ok(c, None)

\* d.insert(_insertDateIndex(date, d), rec)
InsertByDate(l, rec) == ListInsert(l, _insertDateIndex(rec[1], l), rec)

\* f = self.coeffs[name]; if light not in f: f[light] = []; f[light].insert(..)
InsertKeyed(c, name, light_spectrum, rec) ==
    LET f == c[name]
        l == IF DictHas(f, light_spectrum) THEN DictGet(f, light_spectrum)
             ELSE <<>>
    IN [c EXCEPT ![name] = DictSet(f, light_spectrum, InsertByDate(l, rec))]

addDarkCurrent(c, slope, intercept, date, info, error, now) ==
    IF ~_toDateOk(date) THEN Fail(c, "ValueError")
    ELSE LET c1 == _checkShape(c, slope)
             c2 == _checkShape(c1.c, intercept)
             data == IF intercept = NoneV THEN slope
                     ELSE [tuple |-> <<slope, intercept>>]
         IN IF c1.raised # "none" THEN c1
            ELSE IF c2.raised # "none" THEN c2
            ELSE Ok([c2.c EXCEPT !["dark current"] =
                        InsertByDate(@, <<_toDate(date, now), info, data,
                                          error>>)], None)

addNoise(c, nlf_coeff, date, info, error, now) ==
    IF ~_toDateOk(date) THEN Fail(c, "ValueError")
    ELSE Ok([c EXCEPT !["noise"] =
                InsertByDate(@, <<_toDate(date, now), info, nlf_coeff,
                                  error>>)], None)

addDeconvolutionBalance(c, balance, date, info, light_spectrum, now) ==
    LET c1 == _registerLight(c, light_spectrum)
    IN IF ~_toDateOk(date) THEN Fail(c1, "ValueError")
       ELSE Ok(InsertKeyed(c1, "balance", light_spectrum,
                           <<_toDate(date, now), info, balance>>), None)

addPSF(c, psf, date, info, light_spectrum, now) ==
    LET c1 == _registerLight(c, light_spectrum)
    IN IF ~_toDateOk(date) THEN Fail(c1, "ValueError")
       ELSE Ok(InsertKeyed(c1, "psf", light_spectrum,
                           <<_toDate(date, now), info, psf>>), None)

addFlatField(c, arr, date, info, error, light_spectrum, now) ==
    LET c1 == _registerLight(c, light_spectrum)
        c2 == _checkShape(c1, arr)
    IN IF c2.raised # "none" THEN c2
       ELSE IF ~_toDateOk(date) THEN Fail(c2.c, "ValueError")
       ELSE Ok(InsertKeyed(c2.c, "flat field", light_spectrum,
                           <<_toDate(date, now), info, arr, error>>), None)

\* lens: [coeffs |-> ..] is a LensDistortion instance; [path |-> .., ok |-> ..]
\* is a file name, ok telling whether LensDistortion.readFromFile can read it
addLens(c, lens, date, info, light_spectrum, now) ==
    LET c1 == _registerLight(c, light_spectrum)
    IN IF ~_toDateOk(date) THEN Fail(c1, "ValueError")
       ELSE IF "path" \in DOMAIN lens /\ ~lens.ok THEN Fail(c1, "IOError")
       ELSE Ok(InsertKeyed(c1, "lens", light_spectrum,
                           <<_toDate(date, now), info,
                             [val |-> lens.coeffs]>>), None)

\* [l[-1]]
Prune(l) == IF InRange(l, -1) THEN Returned(<<At(l, -1)>>)
            ELSE Raised("IndexError")

\* for light in self.coeffs[name]: self.coeffs[name][light] = [..[light][-1]]
\* from the i-th key on; stops at the first IndexError
RECURSIVE PruneKeyed(_, _, _)
PruneKeyed(c, name, i) ==
    IF i > Len(c[name]) THEN Ok(c, None)
    ELSE LET p == Prune(c[name][i][2])
         IN IF p.raised # "none" THEN Fail(c, p.raised)
            ELSE PruneKeyed([c EXCEPT ![name][i] = <<c[name][i][1], p.ret>>],
                            name, i + 1)

clearOldCalibrations(c) ==
    LET pd == Prune(c["dark current"])
        c1 == [c EXCEPT !["dark current"] = pd.ret]
        pn == Prune(c1["noise"])
        c2 == [c1 EXCEPT !["noise"] = pn.ret]
        c3 == PruneKeyed(c2, "flat field", 1)
    IN IF pd.raised # "none" THEN Fail(c, pd.raised)
       ELSE IF pn.raised # "none" THEN Fail(c1, pn.raised)
       ELSE IF c3.raised # "none" THEN c3
       ELSE PruneKeyed(c3.c, "lens", 1)

\* hypothetical slip: nothing is raised when no record matches
deleteCoeff_silent(c, name, date, light, now) ==
    IF name \in SpectrumKeyed /\ ~DictHas(c[name], light)
    THEN Fail(c, "KeyError")
    ELSE IF ~_toDateOk(date) THEN Fail(c, "ValueError")
    ELSE LET l == IF name \in SpectrumKeyed THEN DictGet(c[name], light)
                  ELSE c[name]
             i == _insertDateIndex(_toDate(date, now), l) - 1
         IN IF i # -1
            THEN Ok([c EXCEPT ![name] =
                        IF name \in SpectrumKeyed
                        THEN DictSet(@, light, ListPop(l, i))
                        ELSE ListPop(l, i)], None)
            ELSE Ok(c, None)

\* hypothetical slip: the newest record is removed whichever date matched
deleteCoeff_newest(c, name, date, light, now) ==
    IF name \in SpectrumKeyed /\ ~DictHas(c[name], light)
    THEN Fail(c, "KeyError")
    ELSE IF ~_toDateOk(date) THEN Fail(c, "ValueError")
    ELSE LET l == IF name \in SpectrumKeyed THEN DictGet(c[name], light)
                  ELSE c[name]
             i == _insertDateIndex(_toDate(date, now), l) - 1
         IN IF i # -1
            THEN Ok([c EXCEPT ![name] =
                        IF name \in SpectrumKeyed
                        THEN DictSet(@, light, ListPop(l, 0))
                        ELSE ListPop(l, 0)], None)
            ELSE Fail(c, "Exception")

deleteCoeff(c, name, date, light, now) ==
    IF name \in SpectrumKeyed /\ ~DictHas(c[name], light)
    THEN Fail(c, "KeyError")
    ELSE IF ~_toDateOk(date) THEN Fail(c, "ValueError")
    ELSE LET l == IF name \in SpectrumKeyed THEN DictGet(c[name], light)
                  ELSE c[name]
             i == _insertDateIndex(_toDate(date, now), l) - 1
         IN IF i # -1
            THEN Ok([c EXCEPT ![name] =
                        IF name \in SpectrumKeyed
                        THEN DictSet(@, light, ListPop(l, i))
                        ELSE ListPop(l, i)], None)
            ELSE Fail(c, "Exception")

\* the sequence getCoeff resolves: [found |-> FALSE] when it returns None
\* because the dict holds no spectrum at all
ResolveSequence(c, name, light) ==
    IF name \in Flat THEN [found |-> TRUE, l |-> c[name]]
    ELSE IF DictHas(c[name], light)
    THEN [found |-> TRUE, l |-> DictGet(c[name], light)]
    ELSE IF Len(c[name]) = 0 THEN [found |-> FALSE, l |-> <<>>]
    ELSE [found |-> TRUE, l |-> c[name][1][2]]

getCoeff(c, name, light, date, now) ==
    LET r == ResolveSequence(c, name, light)
    IN IF ~r.found THEN Ok(c, None)
       ELSE LET g == _getFromDate(r.l, date, now)
            IN [c |-> c, raised |-> g.raised, ret |-> g.ret]

----------------------------------------------------------------------------
(* Inputs of the store operations *)

Lights == {"visible", "IR"}
LightArgs == Lights \cup {NoLight}
Infos == {"a"}
Shapes == {<<1, 2>>, <<2, 1>>, <<1, 2, 3>>}

RECURSIVE Product(_, _)
Product(s, i) == IF i > Len(s) THEN 1 ELSE s[i] * Product(s, i + 1)

Zeros(shape) ==
    [shape |-> shape, data |-> [i \in 1..Product(shape, 1) |-> <<0, 1>>]]
Arrays == {Zeros(s) : s \in Shapes}
Scalar == [val |-> <<1, 1>>]
LensArgs == {[coeffs |-> 1], [path |-> "missing.txt", ok |-> FALSE,
                              coeffs |-> 1]}

\* a list is indexed by light only to raise TypeError, whatever light is
LightsFor(name) == IF name \in Flat THEN {NoLight} ELSE LightArgs

\* the values time.localtime() can take when a date argument is None
Nows(date) == IF date = None THEN Clock ELSE {None}

\* Exploration is limited to profiles whose non-empty categories all lie in
\* one of these groups, holding at most MaxRecords records in total, and to
\* calls that address a category of that group.
Scopes == {{"dark current", "noise"}, {"flat field"}, {"lens"}, {"psf"},
           {"balance"}}

Touched(c) == {name \in Categories : Len(c[name]) > 0}

InScope(name) == \E S \in Scopes : Touched(coeffs) \cup {name} \subseteq S

Room(name) == TotalRecords(coeffs) < MaxRecords /\ InScope(name)

----------------------------------------------------------------------------
(* The store as a state machine: one action per public method.  last is   *)
(* the most recent call: its name, the date argument of a query or a      *)
(* deletion, what the call raised and what it returned.                   *)

Op(op, date, out) ==
    [op |-> op, date |-> date, raised |-> out.raised, ret |-> out.ret]

Init ==
    /\ coeffs = InitCoeffs
    /\ last = [op |-> "__init__", date |-> None, raised |-> "none", ret |-> None]
    /\ noise_level_function = NoneV
    /\ pc = "idle"
    /\ args = NoneV
    /\ image = NoneV
    /\ ran = <<>>
    /\ disk = <<>>
    /\ idw = NoneV

AddDarkCurrent(slopes, intercepts, dates) ==
    /\ pc = "idle"
    /\ Room("dark current")
    /\ UNCHANGED <<pipe, disk, idw>>
    /\ \E slope \in slopes, intercept \in intercepts, date \in dates,
          info \in Infos :
         \E now \in Nows(date) :
           LET out == addDarkCurrent(coeffs, slope, intercept, date, info,
                                     NoneV, now)
           IN /\ coeffs' = out.c
              /\ last' = Op("addDarkCurrent", None, out)

AddNoise ==
    /\ pc = "idle"
    /\ Room("noise")
    /\ UNCHANGED <<pipe, disk, idw>>
    /\ \E date \in DateArgs, info \in Infos :
         \E now \in Nows(date) :
           LET out == addNoise(coeffs, Scalar, date, info, NoneV, now)
           IN /\ coeffs' = out.c
              /\ last' = Op("addNoise", None, out)

AddFlatField(arrs, dates) ==
    /\ pc = "idle"
    /\ Room("flat field")
    /\ UNCHANGED <<pipe, disk, idw>>
    /\ \E arr \in arrs, date \in dates, info \in Infos, light \in Lights :
         \E now \in Nows(date) :
           LET out == addFlatField(coeffs, arr, date, info, NoneV, light, now)
           IN /\ coeffs' = out.c
              /\ last' = Op("addFlatField", None, out)

AddLens ==
    /\ pc = "idle"
    /\ Room("lens")
    /\ UNCHANGED <<pipe, disk, idw>>
    /\ \E lens \in LensArgs, date \in DateArgs, info \in Infos,
          light \in Lights :
         \E now \in Nows(date) :
           LET out == addLens(coeffs, lens, date, info, light, now)
           IN /\ coeffs' = out.c
              /\ last' = Op("addLens", None, out)

AddPSF ==
    /\ pc = "idle"
    /\ Room("psf")
    /\ UNCHANGED <<pipe, disk, idw>>
    /\ \E date \in DateArgs, info \in Infos, light \in Lights :
         \E now \in Nows(date) :
           LET out == addPSF(coeffs, Zeros(<<1, 1>>), date, info, light, now)
           IN /\ coeffs' = out.c
              /\ last' = Op("addPSF", None, out)

AddDeconvolutionBalance ==
    /\ pc = "idle"
    /\ Room("balance")
    /\ UNCHANGED <<pipe, disk, idw>>
    /\ \E date \in DateArgs, info \in Infos, light \in Lights :
         \E now \in Nows(date) :
           LET out == addDeconvolutionBalance(coeffs, Scalar, date, info,
                                              light, now)
           IN /\ coeffs' = out.c
              /\ last' = Op("addDeconvolutionBalance", None, out)

ClearOldCalibrations ==
    /\ pc = "idle"
    /\ LET out == clearOldCalibrations(coeffs)
       IN /\ coeffs' = out.c
          /\ last' = Op("clearOldCalibrations", None, out)
    /\ UNCHANGED <<pipe, disk, idw>>

DeleteCoeff ==
    /\ pc = "idle"
    /\ UNCHANGED <<pipe, disk, idw>>
    /\ \E name \in {n \in Categories : InScope(n)}, date \in DateArgs :
      \E light \in LightsFor(name), now \in Nows(date) :
        LET out == deleteCoeff(coeffs, name, date, light, now)
        IN /\ coeffs' = out.c
           /\ last' = Op("deleteCoeff", date, out)

GetCoeff ==
    /\ pc = "idle"
    /\ UNCHANGED <<pipe, disk, idw>>
    /\ \E name \in {n \in Categories : InScope(n)}, date \in DateArgs :
      \E light \in LightsFor(name), now \in Nows(date) :
        LET out == getCoeff(coeffs, name, light, date, now)
        IN /\ coeffs' = out.c
           /\ last' = Op("getCoeff", date, out)

Next ==
    \/ AddDarkCurrent({Zeros(<<1, 2>>)}, {NoneV}, DateArgs)
    \/ AddNoise
    \/ AddFlatField({Zeros(<<1, 2>>)}, DateArgs)
    \/ AddLens
    \/ AddPSF
    \/ AddDeconvolutionBalance
    \/ ClearOldCalibrations
    \/ DeleteCoeff
    \/ GetCoeff

Spec == Init /\ [][Next]_vars

\* the profile under arrays of every shape, all dated by the clock
NextShape ==
    \/ AddDarkCurrent(Arrays \cup {Scalar}, Arrays \cup {NoneV}, {None})
    \/ AddFlatField(Arrays, {None})
    \/ ClearOldCalibrations
    \/ DeleteCoeff

SpecShape == Init /\ [][NextShape]_vars

----------------------------------------------------------------------------
(* Properties of the store *)

DateLeq(a, b) == ~DateLess(b, a)

\* a call addresses a sequence directly: a list category, or a spectrum that
\* has a table in a spectrum-keyed category
Addresses(c, name, light) == name \in Flat \/ DictHas(c[name], light)
Addressed(c, name, light) ==
    IF name \in Flat THEN c[name] ELSE DictGet(c[name], light)

ValidDateArgs == ValidDateStrings \cup {None}

\* C1: for a non-empty sequence and a valid date D with at least one record
\* dated D or earlier, getCoeff returns a record with the latest date that is
\* not after D.
C1_LatestNotAfter ==
    \A name \in Categories, date \in ValidDateArgs :
      \A light \in LightsFor(name), now \in Nows(date) :
        LET D == _toDate(date, now)
            l == Addressed(coeffs, name, light)
            out == getCoeff(coeffs, name, light, date, now)
        IN (/\ Addresses(coeffs, name, light)
            /\ \E i \in 1..Len(l) : DateLeq(l[i][1], D))
           => /\ out.raised = "none"
              /\ \E i \in 1..Len(l) :
                   /\ out.ret = l[i]
                   /\ DateLeq(l[i][1], D)
                   /\ \A j \in 1..Len(l) :
                        DateLeq(l[j][1], D) => DateLeq(l[j][1], l[i][1])

\* C2 as stated: every category sequence is sorted strictly descending by
\* date.
C2_StrictlyDescending ==
    \A name \in Categories : \A l \in Sequences(coeffs, name) :
      \A i, j \in 1..Len(l) : i < j => DateLess(l[j][1], l[i][1])

\* C2 amended: every category sequence is sorted descending by date, newest
\* first; records of equal date may follow each other.
C2_Descending ==
    \A name \in Categories : \A l \in Sequences(coeffs, name) :
      \A i, j \in 1..Len(l) : i < j => DateLeq(l[j][1], l[i][1])

\* an add put a record in front of an older one
C2_Witness ==
    /\ last.op \in {"addDarkCurrent", "addNoise", "addFlatField", "addLens",
                    "addPSF", "addDeconvolutionBalance"}
    /\ last.raised = "none"
    /\ \E name \in Categories : \E l \in Sequences(coeffs, name) :
         Len(l) = 2 /\ DateLess(l[2][1], l[1][1])

\* the sequence of the category at the same place after a call
Places(c, name) == IF name \in Flat THEN {1} ELSE 1..Len(c[name])
SequenceAt(c, name, i) == IF name \in Flat THEN c[name] ELSE c[name][i][2]

\* C3: clearOldCalibrations leaves every sequence that held a record with
\* exactly one record, the one that had the newest date.
C3_ClearKeepsNewest ==
    LET out == clearOldCalibrations(coeffs)
    IN \A name \in Categories : \A i \in Places(coeffs, name) :
         LET l == SequenceAt(coeffs, name, i)
             k == SequenceAt(out.c, name, i)
         IN Len(l) >= 1
            => /\ Len(k) = 1
               /\ \E n \in 1..Len(l) : k[1] = l[n]
               /\ \A n \in 1..Len(l) : DateLeq(l[n][1], k[1][1])

\* what deleteCoeff does to the addressed sequence l when it removes the
\* record getCoeff returns: that record is gone, the others stay in order,
\* nothing else changes
RemovesReturned(c, name, light, l, g, d) ==
    /\ d.raised = "none"
    /\ g.raised = "none"
    /\ \E i \in 1..Len(l) :
         /\ l[i] = g.ret
         /\ Addressed(d.c, name, light) = ListPop(l, i - 1)
    /\ \A k \in DOMAIN c : k # name => d.c[k] = c[k]
    /\ name \in SpectrumKeyed =>
         /\ DictKeys(d.c[name]) = DictKeys(c[name])
         /\ \A i \in 1..Len(c[name]) :
              c[name][i][1] # light => d.c[name][i] = c[name][i]

C7_NoRecordReturnsNone ==
    \A name \in Categories, date \in DateArgs :
      \A light \in LightsFor(name), now \in Nows(date) :
        LET out == getCoeff(coeffs, name, light, date, now)
        IN (Addresses(coeffs, name, light)
            /\ Len(Addressed(coeffs, name, light)) = 0)
           => out.raised = "none" /\ out.ret = None

\* C8: for a spectrum without a table in a spectrum-keyed category, getCoeff
\* does not raise and returns what it returns for the first-inserted
\* spectrum of the category, and none when the category has no spectrum.
C8_SpectrumFallback ==
    \A name \in SpectrumKeyed, date \in DateArgs :
      \A light \in LightArgs, now \in Nows(date) :
        LET out == getCoeff(coeffs, name, light, date, now)
        IN ~DictHas(coeffs[name], light)
           => /\ out.raised = "none"
              /\ IF Len(coeffs[name]) = 0 THEN out.ret = None
                 ELSE LET first == coeffs[name][1]
                      IN /\ \E i \in 1..Len(first[2]) : out.ret = first[2][i]
                         /\ out.ret = getCoeff(coeffs, name, first[1], date,
                                               now).ret

\* C10 as stated: with an unparseable date, getCoeff on a non-empty sequence
\* returns the oldest record, the last one of the sequence.
C10_InvalidDateReturnsOldest ==
    \A name \in Categories : \A light \in LightsFor(name), now \in Clock :
      LET l == Addressed(coeffs, name, light)
          out == getCoeff(coeffs, name, light, BadDate, now)
      IN (Addresses(coeffs, name, light) /\ Len(l) > 0)
         => out.raised = "none" /\ out.ret = l[Len(l)]

\* C10 amended: with an unparseable date, getCoeff on a non-empty sequence
\* returns the newest record, the first one of the sequence.
C10_InvalidDateReturnsNewest ==
    \A name \in Categories : \A light \in LightsFor(name), now \in Clock :
      LET l == Addressed(coeffs, name, light)
          out == getCoeff(coeffs, name, light, BadDate, now)
      IN (Addresses(coeffs, name, light) /\ Len(l) > 0)
         => /\ out.raised = "none"
            /\ out.ret = l[1]
            /\ \A n \in 1..Len(l) : DateLeq(l[n][1], out.ret[1])

\* a query with the unparseable date returned the newer of two records
C10_Witness ==
    /\ last.op = "getCoeff"
    /\ last.date = BadDate
    /\ last.raised = "none"
    /\ \E name \in Categories : \E l \in Sequences(coeffs, name) :
         Len(l) = 2 /\ DateLess(l[2][1], l[1][1]) /\ last.ret = l[1]

Lead(shape) == SubSeq(shape, 1, 2)

Tables(c) == [name \in Categories |-> c[name]]

\* C9: the first array added sets reference_shape; afterwards addFlatField
\* and addDarkCurrent (slope and intercept) succeed when the leading two
\* dimensions of their arrays equal those of reference_shape, and raise the
\* shape-mismatch error without inserting a record when they differ.
C9_ShapeCheckedOnAdd ==
    /\ \A arr \in Arrays, light \in Lights, now \in Clock :
         LET out == addFlatField(coeffs, arr, None, "a", NoneV, light, now)
             ref == IF coeffs["shape"] # None THEN coeffs["shape"]
                    ELSE arr.shape
         IN IF Lead(arr.shape) = Lead(ref)
            THEN /\ out.raised = "none"
                 /\ out.c["shape"] = ref
                 /\ TotalRecords(out.c) = TotalRecords(coeffs) + 1
            ELSE /\ out.raised = "Exception"
                 /\ Tables(out.c) = Tables(coeffs)
    /\ \A slope \in Arrays \cup {Scalar}, intercept \in Arrays \cup {NoneV},
          now \in Clock :
         LET out == addDarkCurrent(coeffs, slope, intercept, None, "a", NoneV,
                                   now)
             ref == IF coeffs["shape"] # None THEN coeffs["shape"]
                    ELSE IF IsArray(slope) THEN slope.shape
                    ELSE IF IsArray(intercept) THEN intercept.shape
                    ELSE None
             fits(a) == ~IsArray(a) \/ Lead(a.shape) = Lead(ref)
         IN IF fits(slope) /\ fits(intercept)
            THEN /\ out.raised = "none"
                 /\ out.c["shape"] = ref
                 /\ Len(out.c["dark current"]) = Len(coeffs["dark current"]) + 1
            ELSE /\ out.raised = "Exception"
                 /\ Tables(out.c) = Tables(coeffs)

\* an add was refused for its shape after an earlier array was stored
C9_Witness ==
    /\ last.op \in {"addDarkCurrent", "addFlatField"}
    /\ last.raised = "Exception"
    /\ coeffs["shape"] # None
    /\ TotalRecords(coeffs) >= 1

\* C11: when the requested valid date is earlier than the date of every
\* record of a non-empty sequence, getCoeff returns the oldest record, the
\* last one of the sequence.
C11_EarlierThanAllReturnsOldest ==
    \A name \in Categories, date \in ValidDateArgs :
      \A light \in LightsFor(name), now \in Nows(date) :
        LET D == _toDate(date, now)
            l == Addressed(coeffs, name, light)
            out == getCoeff(coeffs, name, light, date, now)
        IN (/\ Addresses(coeffs, name, light)
            /\ Len(l) > 0
            /\ \A i \in 1..Len(l) : DateLess(D, l[i][1]))
           => /\ out.raised = "none"
              /\ out.ret = l[Len(l)]
              /\ \A n \in 1..Len(l) : DateLeq(out.ret[1], l[n][1])

\* a query dated before both of two differently dated records returned the
\* older one
C11_Witness ==
    /\ last.op = "getCoeff"
    /\ last.date \in ValidDateStrings
    /\ last.raised = "none"
    /\ \E name \in Categories : \E l \in Sequences(coeffs, name) :
         /\ Len(l) = 2
         /\ DateLess(l[2][1], l[1][1])
         /\ DateLess(strptime(last.date), l[2][1])
         /\ last.ret = l[2]

\* the times a query without a date can be made at: the clock of the adds
\* or a later day
QueryClock == Clock \cup {strptime(<<1, "Dec", 20, 0, 0>>)}

\* C12: getCoeff without a date on a non-empty sequence whose records all
\* lie in the past returns the newest record, the first one of the sequence.
C12_NoDateReturnsNewest ==
    \A name \in Categories :
      \A light \in LightsFor(name), now \in QueryClock :
        LET l == Addressed(coeffs, name, light)
            out == getCoeff(coeffs, name, light, None, now)
        IN (/\ Addresses(coeffs, name, light)
            /\ Len(l) > 0
            /\ \A i \in 1..Len(l) : DateLess(l[i][1], now))
           => /\ out.raised = "none"
              /\ out.ret = l[1]
              /\ \A n \in 1..Len(l) : DateLeq(l[n][1], out.ret[1])

\* a query without a date returned the first of two records of the past
C12_Witness ==
    /\ last.op = "getCoeff"
    /\ last.date = None
    /\ last.raised = "none"
    /\ \E name \in Categories : \E l \in Sequences(coeffs, name) :
         /\ Len(l) = 2
         /\ \A i \in 1..2, now \in Clock : DateLess(l[i][1], now)
         /\ last.ret = l[1]

\* what C13 says of every deletion by a valid date: it raises the "no coeff"
\* error exactly when Missing(l, D) holds of the addressed sequence l, and
\* removes exactly one record otherwise; a deletion that raises anything
\* leaves the profile unchanged
DeleteRaisesWhen(Missing(_, _)) ==
    /\ \A name \in Categories, date \in ValidDateArgs :
         \A light \in LightsFor(name), now \in Nows(date) :
           LET l == Addressed(coeffs, name, light)
               d == deleteCoeff(coeffs, name, date, light, now)
           IN Addresses(coeffs, name, light)
              => IF Missing(l, _toDate(date, now))
                 THEN d.raised = "Exception"
                 ELSE /\ d.raised = "none"
                      /\ \E i \in 1..Len(l) :
                           Addressed(d.c, name, light) = ListPop(l, i - 1)
    /\ \A name \in Categories, date \in DateArgs :
         \A light \in LightsFor(name), now \in Nows(date) :
           LET d == deleteCoeff(coeffs, name, date, light, now)
           IN d.raised # "none" => d.c = coeffs

IsEmpty(l, D) == Len(l) = 0
NoneAtOrAfter(l, D) == \A i \in 1..Len(l) : DateLess(l[i][1], D)

----------------------------------------------------------------------------
(* Floating point values and array arithmetic *)

Abs(n) == IF n < 0 THEN -n ELSE n
Sign(n) == IF n < 0 THEN -1 ELSE IF n > 0 THEN 1 ELSE 0

RECURSIVE GCD(_, _)
GCD(a, b) == IF b = 0 THEN a ELSE GCD(b, a % b)

\* the float n/d, d > 0
Q(n, d) == LET g == GCD(Abs(n), d) IN <<n \div g, d \div g>>

NaN == <<0, 0>>
IsNaN(x) == x = NaN
IsFinite(x) == x[2] # 0

\* a - b, both finite
QSub(a, b) == Q(a[1] * b[2] - b[1] * a[2], a[2] * b[2])

\* a / b, both finite; a division by zero gives nan or an infinity
QDiv(a, b) ==
    IF b[1] = 0 THEN <<Sign(a[1]), 0>>
    ELSE Q(a[1] * b[2] * Sign(b[1]), a[2] * Abs(b[1]))

\* a * b, b finite
QMul(a, b) ==
    IF IsFinite(a) THEN Q(a[1] * b[1], a[2] * b[2])
    ELSE <<a[1] * Sign(b[1]), 0>>

\* a < b for a finite b; false for nan
QLess(a, b) == IF IsFinite(a) THEN a[1] * b[2] < b[1] * a[2] ELSE a[1] < 0

\* image.max() of finite values
ArrayMax(data) ==
    CHOOSE m \in {data[i] : i \in 1..Len(data)} :
        \A i \in 1..Len(data) : ~QLess(m, data[i])

\* numpy broadcasting of an operand of shape b into an array of shape s
Broadcastable(b, s) ==
    /\ Len(b) <= Len(s)
    /\ \A j \in 1..Len(b) : b[j] = 1 \/ b[j] = s[j + Len(s) - Len(b)]

Stride(s, i) == Product(s, i + 1)
Coord(k, s, i) == (k \div Stride(s, i)) % s[i]

\* the 0-based flat index in the operand for the 0-based flat index k in the
\* array
RECURSIVE BroadcastIndex(_, _, _, _)
BroadcastIndex(k, s, b, j) ==
    IF j > Len(b) THEN 0
    ELSE (IF b[j] = 1 THEN 0 ELSE Coord(k, s, j + Len(s) - Len(b)))
             * Stride(b, j)
         + BroadcastIndex(k, s, b, j + 1)

\* np.asarray(x) for the operand of an in-place operation: an ndarray, a
\* float, or a tuple of two of them; a ragged tuple cannot be used
AsArray(x) ==
    IF IsArray(x) THEN Returned([shape |-> x.shape, data |-> x.data])
    ELSE IF "val" \in DOMAIN x
    THEN Returned([shape |-> <<>>, data |-> <<x.val>>])
    ELSE LET a == x.tuple[1]
             b == x.tuple[2]
         IN IF IsArray(a) /\ IsArray(b) /\ a.shape = b.shape
            THEN Returned([shape |-> <<2>> \o a.shape,
                           data |-> a.data \o b.data])
            ELSE IF ~IsArray(a) /\ ~IsArray(b)
            THEN Returned([shape |-> <<2>>, data |-> <<a.val, b.val>>])
            ELSE Raised("ValueError")

\* outcome of a stage body: what it raised and the array the caller's image
\* refers to afterwards
Done(img) == [raised |-> "none", image |-> img]
Broke(e, img) == [raised |-> e, image |-> img]

\* image -= bg
ISubtract(img, bg) ==
    LET a == AsArray(bg)
    IN IF a.raised # "none" THEN Broke(a.raised, img)
       ELSE IF ~Broadcastable(a.ret.shape, img.shape)
       THEN Broke("ValueError", img)
       ELSE Done([img EXCEPT !.data =
                    [k \in 1..Len(img.data) |->
                        QSub(img.data[k],
                             a.ret.data[BroadcastIndex(k - 1, img.shape,
                                                       a.ret.shape, 1) + 1])]])

\* a collaborator returned an array computed from img
Via(img, f) == [img EXCEPT !.via = Append(@, f)]

\* np.nan_to_num on an array without infinities
NanToNum(img) ==
    [img EXCEPT !.data = [k \in 1..Len(img.data) |->
                             IF IsNaN(img.data[k]) THEN <<0, 1>>
                             ELSE img.data[k]]]

----------------------------------------------------------------------------
(* Collaborators of the pipeline.  fault is the exception the collaborator *)
(* raises at this call, "none" when it returns.                            *)

\* imread(src): an ndarray is passed through, a file is read
imread(src) ==
    IF "path" \in DOMAIN src
    THEN IF src.ok THEN Returned(src.img) ELSE Raised("IOError")
    ELSE Returned(src)

\* SingleTimeEffectDetection(images, nStd=4, noise_level_function=nlf):
\* .noSTE is computed from the stack, .noise_level_function is the given
\* function or an estimate
SingleTimeEffectDetection(images, nlf, fault) ==
    IF fault # "none" THEN Raised(fault)
    ELSE Returned([noSTE |-> Via(images[1], "noSTE"),
                   noise_level_function |->
                       IF nlf = NoneV THEN [nlf |-> "estimated"] ELSE nlf])

----------------------------------------------------------------------------
(* CameraCalibration.correct and its stages *)

DateKeys == {"dark current", "flat field", "lens", "noise", "psf"}

\* date: [str |-> d] is a string or None, [map |-> m] a dict
ResolveDates(date) ==
    IF "str" \in DOMAIN date THEN [k \in DateKeys |-> date.str]
    ELSE date.map

ResolveSpectrum(c, light_spectrum) ==
    IF light_spectrum = NoLight /\ Len(c["light spectra"]) > 0
    THEN c["light spectra"][1]
    ELSE light_spectrum

\* type(images) in (list, tuple); stacks given as one 3-d ndarray are not
\* among the inputs
IsSequence(images) == "list" \in DOMAIN images

\* hypothetical slip: the stored noise record is looked up at every call
Acquire_refreshing(c, nlf, images, date, fault, now) ==
    IF IsSequence(images) /\ Len(images.list) > 1
    THEN LET n == c["noise"]
             lookup == Len(n) > 0
             nlf1 == IF lookup
                     THEN [nlf |-> "stored",
                           coeff |-> _getFromDate(n, date["noise"],
                                                  now).ret[3]]
                     ELSE nlf
             ste == SingleTimeEffectDetection(images.list, nlf1, fault)
         IN IF lookup /\ "noise" \notin DOMAIN date
            THEN [raised |-> "KeyError", image |-> NoneV, nlf |-> nlf]
            ELSE IF ste.raised # "none"
            THEN [raised |-> ste.raised, image |-> NoneV, nlf |-> nlf1]
            ELSE [raised |-> "none", image |-> ste.ret.noSTE,
                  nlf |-> IF nlf1 = NoneV THEN ste.ret.noise_level_function
                          ELSE nlf1]
    ELSE IF IsSequence(images) /\ Len(images.list) = 0
    THEN [raised |-> "IndexError", image |-> NoneV, nlf |-> nlf]
    ELSE LET r == imread(IF IsSequence(images) THEN images.list[1]
                         ELSE images)
         IN [raised |-> r.raised,
             image |-> IF r.raised = "none" THEN r.ret ELSE NoneV,
             nlf |-> nlf]

\* lines 384-410: the working image and self.noise_level_function
Acquire(c, nlf, images, date, fault, now) ==
    IF IsSequence(images) /\ Len(images.list) > 1
    THEN LET n == c["noise"]
             lookup == nlf = NoneV /\ Len(n) > 0
             nlf1 == IF lookup
                     THEN [nlf |-> "stored",
                           coeff |-> _getFromDate(n, date["noise"],
                                                  now).ret[3]]
                     ELSE nlf
             ste == SingleTimeEffectDetection(images.list, nlf1, fault)
         IN IF lookup /\ "noise" \notin DOMAIN date
            THEN [raised |-> "KeyError", image |-> NoneV, nlf |-> nlf]
            ELSE IF ste.raised # "none"
            THEN [raised |-> ste.raised, image |-> NoneV, nlf |-> nlf1]
            ELSE [raised |-> "none", image |-> ste.ret.noSTE,
                  nlf |-> IF nlf1 = NoneV THEN ste.ret.noise_level_function
                          ELSE nlf1]
    ELSE IF IsSequence(images) /\ Len(images.list) = 0
    THEN [raised |-> "IndexError", image |-> NoneV, nlf |-> nlf]
    ELSE LET r == imread(IF IsSequence(images) THEN images.list[1]
                         ELSE images)
         IN [raised |-> r.raised,
             image |-> IF r.raised = "none" THEN r.ret ELSE NoneV,
             nlf |-> nlf]

\* d is a list record, so type(d) == tuple is false and bg = d[2] whatever
\* the record holds
calcDarkCurrent(c, exposuretime, date, now) ==
    LET d == _getFromDate(c["dark current"], date, now)
    IN IF d.raised # "none" THEN d ELSE Returned(d.ret[3])

_correctDarkCurrent(c, nlf, img, exposuretime, bgImages, date, fault, now) ==
    LET bg == IF bgImages # NoneV
              THEN IF IsSequence(bgImages)
                   THEN IF Len(bgImages.list) > 1
                        THEN LET ste == SingleTimeEffectDetection(
                                            bgImages.list, nlf, fault)
                             IN IF ste.raised # "none" THEN ste
                                ELSE Returned(ste.ret.noSTE)
                        ELSE IF Len(bgImages.list) = 0
                        THEN Raised("IndexError")
                        ELSE imread(bgImages.list[1])
                   ELSE imread(bgImages)
              ELSE calcDarkCurrent(c, exposuretime, date, now)
    IN IF bg.raised # "none" THEN Broke(bg.raised, img)
       ELSE ISubtract(img, bg.ret)

\* hypothetical slip: image /= d, the zero coefficients included
_correctVignetting_divideAll(c, img, light_spectrum, date, now) ==
    LET g == getCoeff(c, "flat field", light_spectrum, date, now)
    IN IF g.raised # "none" THEN Broke(g.raised, img)
       ELSE IF g.ret = None THEN Done(img)
       ELSE LET d == g.ret[3]
            IN IF d.shape # img.shape THEN Broke("IndexError", img)
               ELSE Done([img EXCEPT !.data =
                            [k \in 1..Len(img.data) |->
                                QDiv(img.data[k], d.data[k])]])

\* i = d != 0; image[i] /= d[i]: for a 2-d image a mask of another shape
\* raises IndexError
_correctVignetting(c, img, light_spectrum, date, now) ==
    LET g == getCoeff(c, "flat field", light_spectrum, date, now)
    IN IF g.raised # "none" THEN Broke(g.raised, img)
       ELSE IF g.ret = None THEN Done(img)
       ELSE LET d == g.ret[3]
            IN IF d.shape # img.shape THEN Broke("IndexError", img)
               ELSE Done([img EXCEPT !.data =
                            [k \in 1..Len(img.data) |->
                                IF d.data[k][1] # 0
                                THEN QDiv(img.data[k], d.data[k])
                                ELSE img.data[k]]])

\* works on the copy np.nan_to_num returns
_correctArtefacts(img, threshold, fault) ==
    IF fault # "none" THEN Broke(fault, img)
    ELSE Done(Via(NanToNum(img), "medianThreshold"))

\* image /= mx changes the caller's array before the balance lookup and the
\* deconvolution can raise
_correctBlur(c, img, light_spectrum, date, fault, now) ==
    LET d == getCoeff(c, "psf", light_spectrum, date, now)
        mx == ArrayMax(img.data)
        scaled == [img EXCEPT !.data = [k \in 1..Len(img.data) |->
                                           QDiv(img.data[k], mx)]]
        balance == getCoeff(c, "balance", light_spectrum, date, now)
        deconvolved == Via(scaled, IF balance.ret = None
                                   THEN "unsupervised_wiener" ELSE "wiener")
    IN IF fault = "ImportError" THEN Broke(fault, img)
       ELSE IF d.raised # "none" THEN Broke(d.raised, img)
       ELSE IF d.ret = None THEN Done(img)
       ELSE IF balance.raised # "none" THEN Broke(balance.raised, scaled)
       ELSE IF fault # "none" THEN Broke(fault, scaled)
       ELSE Done([deconvolved EXCEPT !.data =
                    [k \in 1..Len(img.data) |->
                        QMul(IF QLess(deconvolved.data[k], <<0, 1>>)
                             THEN <<0, 1>> ELSE deconvolved.data[k], mx)]])

getLens(c, light_spectrum, date, fault, now) ==
    LET d == getCoeff(c, "lens", light_spectrum, date, now)
    IN IF d.raised # "none" THEN Raised(d.raised)
       ELSE IF d.ret = None THEN Returned(NoneV)
       ELSE IF fault # "none" THEN Raised(fault)
       ELSE Returned(d.ret[3])

_correctLens(c, img, light_spectrum, date, keep_size, fault, now) ==
    LET lens == getLens(c, light_spectrum, date, fault, now)
    IN IF lens.raised # "none" THEN Broke(lens.raised, img)
       ELSE IF lens.ret = NoneV THEN Done(img)
       ELSE Done(Via(img, "lens.correct"))

\* image[np.isnan(image)] = 0, then denoise_nl_means
_correctNoise(img, fault) ==
    IF fault = "ImportError" THEN Broke(fault, img)
    ELSE IF fault # "none" THEN Broke(fault, NanToNum(img))
    ELSE Done(Via(NanToNum(img), "denoise_nl_means"))

\* a stage of correct(): whether its body ran, how it ended ("ok", "caught"
\* by the stage's except clause, or "raised" to the caller) and the image
\* afterwards
Skipped(img) ==
    [outcome |-> "skipped", raised |-> "none", image |-> img]
Try(r) ==
    [outcome |-> IF r.raised = "none" THEN "ok" ELSE "caught",
     raised |-> r.raised, image |-> r.image]
NoTry(r) ==
    [outcome |-> IF r.raised = "none" THEN "ok" ELSE "raised",
     raised |-> r.raised, image |-> r.image]

\* hypothetical slip: the dark-current stage without its try/except
DarkCurrentStage_uncaught(c, nlf, img, a, fault, now) ==
    IF "dark current" \notin DOMAIN a.date THEN NoTry(Broke("KeyError", img))
    ELSE NoTry(_correctDarkCurrent(c, nlf, img, a.exposure_time, a.bgImages,
                                   a.date["dark current"], fault, now))

DarkCurrentStage(c, nlf, img, a, fault, now) ==
    IF "dark current" \notin DOMAIN a.date THEN Try(Broke("KeyError", img))
    ELSE Try(_correctDarkCurrent(c, nlf, img, a.exposure_time, a.bgImages,
                                 a.date["dark current"], fault, now))

VignettingStage(c, img, a, now) ==
    IF "flat field" \notin DOMAIN a.date THEN Try(Broke("KeyError", img))
    ELSE Try(_correctVignetting(c, img, a.light_spectrum,
                                a.date["flat field"], now))

\* hypothetical slip: the artefact removal runs whatever the threshold
ArtefactsStage_always(img, a, fault) ==
    Try(_correctArtefacts(img, a.threshold, fault))

ArtefactsStage(img, a, fault) ==
    IF ~QLess(<<0, 1>>, a.threshold) THEN Skipped(img)
    ELSE Try(_correctArtefacts(img, a.threshold, fault))

BlurStage(c, img, a, fault, now) ==
    IF ~a.deblur THEN Skipped(img)
    ELSE IF "psf" \notin DOMAIN a.date THEN Try(Broke("KeyError", img))
    ELSE Try(_correctBlur(c, img, a.light_spectrum, a.date["psf"], fault,
                          now))

\* hypothetical slip: the lens stage only has its except TypeError clause
LensStage_onlyTypeError(c, img, a, fault, now) ==
    IF "lens" \notin DOMAIN a.date THEN NoTry(Broke("KeyError", img))
    ELSE LET r == _correctLens(c, img, a.light_spectrum, a.date["lens"],
                               a.keep_size, fault, now)
         IN IF r.raised = "TypeError" THEN Try(r) ELSE NoTry(r)

LensStage(c, img, a, fault, now) ==
    IF "lens" \notin DOMAIN a.date THEN Try(Broke("KeyError", img))
    ELSE Try(_correctLens(c, img, a.light_spectrum, a.date["lens"],
                          a.keep_size, fault, now))

DenoiseStage(img, a, fault) ==
    IF ~a.denoise THEN Skipped(img)
    ELSE NoTry(_correctNoise(img, fault))

----------------------------------------------------------------------------
(* Inputs of correct() *)

Today == CHOOSE t \in Clock : TRUE

Pixels(shape, data) == [shape |-> shape, data |-> data, via |-> <<>>]

Raw == Pixels(<<1, 2>>, <<Q(4, 1), Q(2, 1)>>)
Dark == Pixels(<<1, 2>>, <<Q(0, 1), Q(0, 1)>>)
Tall == Pixels(<<2, 1>>, <<Q(4, 1), Q(2, 1)>>)
Unreadable == [path |-> "missing.png", ok |-> FALSE, img |-> NoneV]
Background == [shape |-> <<1, 2>>, data |-> <<Q(1, 1), Q(1, 1)>>]
Sensitivity == [shape |-> <<1, 2>>, data |-> <<Q(1, 2), Q(0, 1)>>]

ImageArgs == {Raw, Dark, Tall, Unreadable, [list |-> <<Raw, Raw>>]}
DateMaps == {[k \in {"dark current", "flat field", "lens", "noise"} |-> None],
             [k \in {"flat field", "lens", "psf"} |-> None]}

\* the other arguments at their defaults but for one of them
Settings ==
    {[bgImages |-> b, light_spectrum |-> l, date |-> d] :
        b \in {NoneV}, l \in {NoLight}, d \in {[str |-> None]}}
    \cup {[bgImages |-> Pixels(<<1, 2>>, Background.data),
           light_spectrum |-> NoLight, date |-> [str |-> None]]}
    \cup {[bgImages |-> NoneV, light_spectrum |-> "IR",
           date |-> [str |-> None]]}
    \cup {[bgImages |-> NoneV, light_spectrum |-> NoLight,
           date |-> [map |-> m]] : m \in DateMaps}

CorrectArgs ==
    {[images |-> i, bgImages |-> s.bgImages, exposure_time |-> NoneV,
      light_spectrum |-> s.light_spectrum, threshold |-> t,
      keep_size |-> TRUE, date |-> s.date, deblur |-> b, denoise |-> n] :
        i \in ImageArgs, s \in Settings, t \in {Q(0, 1), Q(1, 10)},
        b \in BOOLEAN, n \in BOOLEAN}

\* profiles saved earlier: the empty one; one with a constant background, a
\* noise record and, for "visible", a flat field, a lens and a psf; that one
\* with a balance; that one after the balance was deleted again
Calibrated ==
    LET c1 == addDarkCurrent(InitCoeffs, Background, NoneV, None, "a", NoneV,
                             Today).c
        c2 == addNoise(c1, Scalar, None, "a", NoneV, Today).c
        c3 == addFlatField(c2, Sensitivity, None, "a", NoneV, "visible",
                           Today).c
        c4 == addLens(c3, [coeffs |-> 1], None, "a", "visible", Today).c
    IN addPSF(c4, Zeros(<<1, 1>>), None, "a", "visible", Today).c

Balanced ==
    addDeconvolutionBalance(Calibrated, Scalar, None, "a", "visible", Today).c

Unbalanced == deleteCoeff(Balanced, "balance", None, "visible", Today).c

SavedProfiles == {InitCoeffs, Calibrated, Balanced, Unbalanced}

\* the faults a collaborator can raise where the call reaches one
MayFail(reached, faults) == IF reached THEN {"none"} \cup faults ELSE {"none"}

----------------------------------------------------------------------------
(* correct() as a state machine: one action per stage *)

Stages == <<"acquire", "shape", "dark current", "vignetting", "artefacts",
            "blur", "lens", "denoise">>
TryStages == {"dark current", "vignetting", "artefacts", "blur", "lens"}

Ran(stage, s) == [stage |-> stage, outcome |-> s.outcome, raised |-> s.raised]

Result(raised, ret) ==
    [op |-> "correct", date |-> None, raised |-> raised, ret |-> ret]

\* the stage ended as s: go on to the stage at pc next, or leave the call
\* when the failure is not caught
Step(stage, s, next) ==
    /\ ran' = IF s.outcome = "skipped" THEN ran ELSE Append(ran, Ran(stage, s))
    /\ IF s.outcome = "raised"
       THEN /\ pc' = "idle"
            /\ image' = NoneV
            /\ last' = Result(s.raised, None)
       ELSE IF next = "idle"
       THEN /\ pc' = "idle"
            /\ image' = NoneV
            /\ last' = Result("none", s.image)
       ELSE /\ pc' = next
            /\ image' = s.image
            /\ last' = last

\* cal = CameraCalibration.loadFromFile(path) of a saved profile
InitPipe ==
    /\ coeffs \in SavedProfiles
    /\ last = [op |-> "loadFromFile", date |-> None, raised |-> "none",
               ret |-> None]
    /\ noise_level_function = NoneV
    /\ pc = "idle"
    /\ args = NoneV
    /\ image = NoneV
    /\ ran = <<>>
    /\ disk = <<>>
    /\ idw = NoneV

\* lines 369-410
Correct ==
    /\ pc = "idle"
    /\ \E a \in CorrectArgs :
         \E fault \in MayFail(IsSequence(a.images), {"RuntimeError"}) :
           LET date == ResolveDates(a.date)
               r == Acquire(coeffs, noise_level_function, a.images, date,
                            fault, Today)
           IN /\ args' = [a EXCEPT !.date = date,
                                   !.light_spectrum =
                                       ResolveSpectrum(coeffs, @)]
              /\ noise_level_function' = r.nlf
              /\ ran' = <<Ran("acquire", NoTry(r))>>
              /\ IF r.raised # "none"
                 THEN /\ pc' = "idle"
                      /\ image' = NoneV
                      /\ last' = Result(r.raised, None)
                 ELSE /\ pc' = "shape"
                      /\ image' = r.image
                      /\ last' = Result("none", None)
    /\ UNCHANGED <<coeffs, disk, idw>>

\* lines 412-415
Correct_checkShape ==
    /\ pc = "shape"
    /\ LET r == _checkShape(coeffs, image)
       IN /\ coeffs' = r.c
          /\ Step("shape", NoTry([raised |-> r.raised, image |-> image]),
                  "dark current")
    /\ UNCHANGED <<noise_level_function, args, disk, idw>>

\* lines 417-422
Correct_darkCurrent ==
    /\ pc = "dark current"
    /\ \E fault \in MayFail(args.bgImages # NoneV
                            /\ IsSequence(args.bgImages), {"RuntimeError"}) :
         Step("dark current",
              DarkCurrentStage(coeffs, noise_level_function, image, args,
                               fault, Today),
              "vignetting")
    /\ UNCHANGED <<coeffs, noise_level_function, args, disk, idw>>

\* lines 424-429
Correct_vignetting ==
    /\ pc = "vignetting"
    /\ Step("vignetting", VignettingStage(coeffs, image, args, Today),
            "artefacts")
    /\ UNCHANGED <<coeffs, noise_level_function, args, disk, idw>>

\* lines 431-437
Correct_artefacts ==
    /\ pc = "artefacts"
    /\ \E fault \in MayFail(QLess(<<0, 1>>, args.threshold),
                            {"RuntimeError"}) :
         Step("artefacts", ArtefactsStage(image, args, fault), "blur")
    /\ UNCHANGED <<coeffs, noise_level_function, args, disk, idw>>

\* lines 438-444
Correct_blur ==
    /\ pc = "blur"
    /\ \E fault \in MayFail(args.deblur, {"ImportError", "RuntimeError"}) :
         Step("blur", BlurStage(coeffs, image, args, fault, Today), "lens")
    /\ UNCHANGED <<coeffs, noise_level_function, args, disk, idw>>

\* lines 445-452
Correct_lens ==
    /\ pc = "lens"
    /\ \E fault \in MayFail(TRUE, {"TypeError", "RuntimeError"}) :
         Step("lens", LensStage(coeffs, image, args, fault, Today),
              "denoise")
    /\ UNCHANGED <<coeffs, noise_level_function, args, disk, idw>>

\* lines 453-459
Correct_denoise ==
    /\ pc = "denoise"
    /\ \E fault \in MayFail(args.denoise, {"ImportError", "RuntimeError"}) :
         Step("denoise", DenoiseStage(image, args, fault), "idle")
    /\ UNCHANGED <<coeffs, noise_level_function, args, disk, idw>>

NextPipe ==
    \/ Correct
    \/ Correct_checkShape
    \/ Correct_darkCurrent
    \/ Correct_vignetting
    \/ Correct_artefacts
    \/ Correct_blur
    \/ Correct_lens
    \/ Correct_denoise

SpecPipe == InitPipe /\ [][NextPipe]_vars

----------------------------------------------------------------------------
(* Properties of the pipeline *)

\* the stage at pc raised and its except clause caught the exception
StageCaught ==
    /\ pc \in TryStages
    /\ Len(ran') = Len(ran) + 1
    /\ ran'[Len(ran')].stage = pc
    /\ ran'[Len(ran')].outcome = "caught"

\* C5: whenever one of the stages dark current, vignetting, artefacts, blur,
\* lens raises, the image handed to the next stage is exactly the image that
\* entered the failing stage.
C5_FailedStageLeavesImage == [][StageCaught => image' = image]_vars

\* the stages the arguments enable after the acquisition
Enabled(a) ==
    {"shape", "dark current", "vignetting", "lens"}
    \cup (IF QLess(<<0, 1>>, a.threshold) THEN {"artefacts"} ELSE {})
    \cup (IF a.deblur THEN {"blur"} ELSE {})
    \cup (IF a.denoise THEN {"denoise"} ELSE {})

Position(stage) == CHOOSE i \in 1..Len(Stages) : Stages[i] = stage

IsImage(x) == DOMAIN x = {"shape", "data", "via"}

\* a finished correct(): a failure caught in one of the five guarded stages
\* is followed by every later enabled stage; the call comes back with an
\* image unless a stage of abortable raised to the caller
AbortsOnlyIn(abortable) ==
    (pc = "idle" /\ last.op = "correct")
    => /\ \A i \in 1..Len(ran) :
            /\ ran[i].outcome = "caught" =>
                 /\ ran[i].stage \in TryStages
                 /\ \A stage \in Enabled(args) :
                      Position(stage) > Position(ran[i].stage)
                      => \E j \in (i + 1)..Len(ran) : ran[j].stage = stage
            /\ ran[i].outcome = "raised" =>
                 /\ ran[i].stage \in abortable
                 /\ i = Len(ran)
                 /\ last.raised = ran[i].raised
       /\ IF \E i \in 1..Len(ran) : ran[i].outcome = "raised"
          THEN last.raised # "none" /\ last.ret = None
          ELSE last.raised = "none" /\ IsImage(last.ret)

\* C6 as stated: failures inside the five guarded stages never abort
\* correct(); only a failure of the shape validation or of the denoise stage
\* propagates to the caller.
C6_OnlyShapeOrDenoiseAbort == AbortsOnlyIn({"shape", "denoise"})

\* C6 amended: failures inside the five guarded stages never abort
\* correct(), every later enabled stage still runs and an image is returned;
\* a failure while the working image is acquired, of the shape validation or
\* of the denoise stage propagates to the caller.
C6_OnlyAcquireShapeOrDenoiseAbort ==
    AbortsOnlyIn({"acquire", "shape", "denoise"})

\* a call in which the lens stage and an earlier stage failed returned an
\* image after a spectrum fallback
C6_Witness ==
    /\ pc = "idle"
    /\ last.op = "correct"
    /\ last.raised = "none"
    /\ args.light_spectrum = "IR"
    /\ Len(coeffs["lens"]) > 0
    /\ \E i, j \in 1..Len(ran) :
         /\ i < j
         /\ ran[i].outcome = "caught"
         /\ ran[j].stage = "lens"
         /\ ran[j].outcome = "caught"

----------------------------------------------------------------------------
(* Listing, transposing, saving and loading a profile *)

\* assert light is not None: asserts tells whether the interpreter runs with
\* assertions (the default) or without them (python -O)
_getDate(c, typ, light, asserts) ==
    IF typ \notin DOMAIN c THEN Raised("KeyError")
    ELSE IF typ \in SpectrumKeyed
    THEN IF light = NoLight /\ asserts THEN Raised("AssertionError")
         ELSE IF ~DictHas(c[typ], light) THEN Raised("KeyError")
         ELSE Returned(DictGet(c[typ], light))
    ELSE Returned(c[typ])

dates(c, typ, light, asserts) ==
    LET d == _getDate(c, typ, light, asserts)
    IN IF d.raised = "KeyError" THEN Ok(c, <<>>)
       ELSE IF d.raised # "none" THEN Fail(c, d.raised)
       ELSE Ok(c, [i \in 1..Len(d.ret) |-> _toDateStr(d.ret[i][1])])

Reverse(s) == [i \in 1..Len(s) |-> s[Len(s) + 1 - i]]

\* the 0-based flat index in an array of shape s of the element that it.T
\* holds at the 0-based flat index k
RECURSIVE TransposedIndex(_, _, _)
TransposedIndex(k, s, j) ==
    IF j > Len(s) THEN 0
    ELSE Coord(k, Reverse(s), Len(s) + 1 - j) * Stride(s, j)
         + TransposedIndex(k, s, j + 1)

\* it.T: all axes reversed
T(it) ==
    [it EXCEPT !.shape = Reverse(it.shape),
               !.data = [k \in 1..Len(it.data) |->
                            it.data[TransposedIndex(k - 1, it.shape, 1) + 1]]]

\* _t on one payload of a record: a tuple becomes a list and is descended
\* into, an ndarray of exactly the shape s is replaced by its transpose
RECURSIVE _tItem(_, _)
_tItem(it, s) ==
    IF "tuple" \in DOMAIN it
    THEN [list |-> [n \in 1..Len(it.tuple) |-> _tItem(it.tuple[n], s)]]
    ELSE IF "list" \in DOMAIN it
    THEN [list |-> [n \in 1..Len(it.list) |-> _tItem(it.list[n], s)]]
    ELSE IF IsArray(it) /\ it.shape = s THEN T(it)
    ELSE it

\* _t on a list of records [date, info, payload, ...]
_t(item, s) ==
    [r \in 1..Len(item) |->
        [n \in 1..Len(item[r]) |->
            IF n <= 2 THEN item[r][n] ELSE _tItem(item[r][n], s)]]

\* hypothetical slip: the arrays are transposed, reference_shape is kept
transpose_keepShape(c) ==
    LET s == c["shape"]
    IN Ok([k \in DOMAIN c |->
              IF k \in SpectrumKeyed
              THEN [i \in 1..Len(c[k]) |-> <<c[k][i][1], _t(c[k][i][2], s)>>]
              ELSE IF k \in Flat THEN _t(c[k], s)
              ELSE c[k]], None)

\* s[::-1] raises TypeError while reference_shape is None, after the loop
transpose(c) ==
    LET s == c["shape"]
        c1 == [k \in DOMAIN c |->
                  IF k \in SpectrumKeyed
                  THEN [i \in 1..Len(c[k]) |->
                           <<c[k][i][1], _t(c[k][i][2], s)>>]
                  ELSE IF k \in Flat THEN _t(c[k], s)
                  ELSE c[k]]
    IN IF s = None THEN Fail(c1, "TypeError")
       ELSE Ok([c1 EXCEPT !["shape"] = Reverse(s)], None)

\* a file name is the sequence of its parts: "cam.cal" is <<"cam", ".cal">>
ftype == ".cal"

_correctPath(path) ==
    IF Len(path) > 0 /\ path[Len(path)] = ftype THEN path
    ELSE Append(path, ftype)

\* the keys of self.coeffs in the order __init__ inserts them
CoeffKeys == <<"name", "depth", "light spectra", "dark current", "flat field",
               "lens", "noise", "psf", "shape", "balance">>

\* pickle.dump(c): the items of the dict one after the other
PickleDump(c) ==
    LET keys == SelectSeq(CoeffKeys, LAMBDA k : k \in DOMAIN c)
    IN [i \in 1..Len(keys) |-> <<keys[i], c[keys[i]]>>]

\* pickle.load(f): the dict of the items
PickleLoad(f) ==
    [k \in {f[i][1] : i \in 1..Len(f)} |->
        f[CHOOSE i \in 1..Len(f) : f[i][1] = k][2]]

\* hypothetical slip: only the category tables are written
saveToFile_tables(dsk, c, path) ==
    LET name == _correctPath(path)
    IN [f \in DOMAIN dsk \cup {name} |->
           IF f = name THEN PickleDump([k \in Categories |-> c[k]])
           ELSE dsk[f]]

\* the disk after saveToFile(path)
saveToFile(dsk, c, path) ==
    LET name == _correctPath(path)
    IN [f \in DOMAIN dsk \cup {name} |->
           IF f = name THEN PickleDump(c) ELSE dsk[f]]

\* hypothetical slip: the loaded dict replaces self.coeffs
loadFromFile_replace(dsk, path) ==
    LET name == _correctPath(path)
    IN IF name \notin DOMAIN dsk THEN Fail(InitCoeffs, "IOError")
       ELSE Ok(PickleLoad(dsk[name]), None)

\* cal = CameraCalibration(); cal.coeffs.update(d)
loadFromFile(dsk, path) ==
    LET name == _correctPath(path)
        cal == InitCoeffs
        d == PickleLoad(dsk[name])
    IN IF name \notin DOMAIN dsk THEN Fail(cal, "IOError")
       ELSE Ok([k \in DOMAIN cal \cup DOMAIN d |->
                   IF k \in DOMAIN d THEN d[k] ELSE cal[k]], None)

----------------------------------------------------------------------------
(* Files saved earlier *)

Counting(shape) ==
    [shape |-> shape, data |-> [i \in 1..Product(shape, 1) |-> Q(i, 1)]]

Plane == Counting(<<2, 3>>)
Cube == Counting(<<2, 3, 2>>)

\* slope, intercept and error arrays, a channel-stacked flat field with an
\* error array, two flat fields and two psf for "visible", the older psf
\* being 3 x 2 where the images are 2 x 3
Paired ==
    LET c1 == addDarkCurrent(InitCoeffs, Plane, Plane, None, "a", Plane,
                             Today).c
        c2 == addNoise(c1, Scalar, None, "a", NoneV, Today).c
        c3 == addFlatField(c2, Cube, None, "a", Plane, "visible", Today).c
        c4 == addFlatField(c3, Plane, <<1, "Jan", 20, 0, 0>>, "a", NoneV,
                           "visible", Today).c
        c5 == addPSF(c4, Zeros(<<1, 1>>), None, "a", "visible", Today).c
    IN addPSF(c5, Counting(<<3, 2>>), <<1, "Jan", 20, 0, 0>>, "a", "visible",
              Today).c

\* the reference shape is that of a channel-stacked flat field
Stacked ==
    LET c1 == addFlatField(InitCoeffs, Cube, None, "a", NoneV, "IR", Today).c
        c2 == addDarkCurrent(c1, Plane, NoneV, None, "a", NoneV, Today).c
    IN addNoise(c2, Scalar, None, "a", NoneV, Today).c

\* a file written before psf and balance were introduced
OldFormat(c) == [k \in DOMAIN c \ {"psf", "balance"} |-> c[k]]

SavedFiles ==
    LET content == [f \in {"old", "full", "pair", "stack"} |->
                       CASE f = "old" -> OldFormat(Calibrated)
                         [] f = "full" -> Balanced
                         [] f = "pair" -> Paired
                         [] f = "stack" -> Stacked]
    IN [name \in {<<f, ftype>> : f \in DOMAIN content} |->
           PickleDump(content[name[1]])]

LoadPaths == {<<"old">>, <<"full", ftype>>, <<"pair">>, <<"stack">>,
              <<"cam">>, <<"cam", ftype>>}
SavePaths == {<<"cam">>, <<"cam", ftype>>}

----------------------------------------------------------------------------
(* The profile and its files as a state machine *)

InitFile ==
    /\ coeffs = InitCoeffs
    /\ last = [op |-> "__init__", date |-> None, raised |-> "none", ret |-> None]
    /\ noise_level_function = NoneV
    /\ pc = "idle"
    /\ args = NoneV
    /\ image = NoneV
    /\ ran = <<>>
    /\ disk = SavedFiles
    /\ idw = NoneV

\* the profile at hand becomes the loaded one; last.ret is the file read
LoadFromFile ==
    /\ pc = "idle"
    /\ \E path \in LoadPaths :
         LET out == loadFromFile(disk, path)
         IN /\ coeffs' = IF out.raised = "none" THEN out.c ELSE coeffs
            /\ noise_level_function' =
                   IF out.raised = "none" THEN NoneV ELSE noise_level_function
            /\ last' = [op |-> "loadFromFile", date |-> None,
                        raised |-> out.raised, ret |-> _correctPath(path)]
    /\ UNCHANGED <<pc, args, image, ran, disk, idw>>

\* last.ret is the file written
SaveToFile ==
    /\ pc = "idle"
    /\ \E path \in SavePaths :
         /\ disk' = saveToFile(disk, coeffs, path)
         /\ last' = [op |-> "saveToFile", date |-> None, raised |-> "none",
                     ret |-> _correctPath(path)]
    /\ UNCHANGED <<coeffs, pipe, idw>>

Transpose ==
    /\ pc = "idle"
    /\ LET out == transpose(coeffs)
       IN /\ coeffs' = out.c
          /\ last' = Op("transpose", None, out)
    /\ UNCHANGED <<pipe, disk, idw>>

Dates ==
    /\ pc = "idle"
    /\ \E typ \in Categories \cup {"gain"}, light \in LightArgs,
          asserts \in BOOLEAN :
         last' = Op("dates", None, dates(coeffs, typ, light, asserts))
    /\ UNCHANGED <<coeffs, pipe, disk, idw>>

NextFile ==
    \/ LoadFromFile
    \/ SaveToFile
    \/ Transpose
    \/ Dates
    \/ ClearOldCalibrations

SpecFile == InitFile /\ [][NextFile]_vars

----------------------------------------------------------------------------
(* Properties of listing, transposing, saving and loading *)

\* C14: after clearOldCalibrations every non-empty sequence of every
\* category (dark current, noise, and each spectrum of flat field, lens, psf
\* and balance) has length exactly 1.
C14_ClearPrunesEveryCategory ==
    LET out == clearOldCalibrations(coeffs)
    IN \A name \in Categories : \A l \in Sequences(out.c, name) :
         Len(l) > 0 => Len(l) = 1

DatesOf(l) == [i \in 1..Len(l) |-> _toDateStr(l[i][1])]

\* what dates is to return: the dates of the addressed sequence in sequence
\* order, the empty sequence when there is no such category or spectrum
StoredDates(c, typ, light) ==
    IF typ \notin Categories THEN <<>>
    ELSE IF typ \in Flat THEN DatesOf(c[typ])
    ELSE IF DictHas(c[typ], light) THEN DatesOf(DictGet(c[typ], light))
    ELSE <<>>

\* C15: for every category and every light argument (no light for a
\* spectrum-keyed category and a spectrum without a table included) dates
\* returns the stored dates in sequence order, or the empty sequence when
\* the combination is absent, and never raises.
C15_DatesNeverFails ==
    \A typ \in Categories \cup {"gain"}, light \in LightArgs,
       asserts \in BOOLEAN :
      LET out == dates(coeffs, typ, light, asserts)
      IN /\ out.raised = "none"
         /\ out.ret = StoredDates(coeffs, typ, light)

\* the table of a category with every tuple read as a list: no array has the
\* shape None, so that _t leaves every array as it is
Listed(c, name) ==
    IF name \in SpectrumKeyed
    THEN [i \in 1..Len(c[name]) |->
             <<c[name][i][1], _t(c[name][i][2], None)>>]
    ELSE _t(c[name], None)

\* C16: applying transpose() twice restores the original reference_shape
\* and the original orientation of every stored array payload, those nested
\* in the dark-current pair and the error fields included.
C16_TransposeTwiceRestores ==
    LET once == transpose(coeffs).c
        twice == transpose(once).c
    IN /\ twice["shape"] = coeffs["shape"]
       /\ \A name \in Categories : Listed(twice, name) = Listed(coeffs, name)

C18_LoadMergesOntoDefaults ==
    \A path \in LoadPaths :
      LET out == loadFromFile(disk, path)
          d == PickleLoad(disk[_correctPath(path)])
      IN _correctPath(path) \in DOMAIN disk
         => /\ out.raised = "none"
            /\ DOMAIN out.c = DOMAIN InitCoeffs \cup DOMAIN d
            /\ \A k \in DOMAIN d : out.c[k] = d[k]
            /\ \A k \in DOMAIN InitCoeffs \ DOMAIN d : out.c[k] = InitCoeffs[k]

\* the file written before psf and balance existed was loaded: the profile
\* has the file's dark current and empty psf and balance tables
C18_Witness ==
    /\ last.op = "loadFromFile"
    /\ last.raised = "none"
    /\ last.ret = <<"old", ftype>>
    /\ {"psf", "balance"} \cap DOMAIN PickleLoad(disk[last.ret]) = {}
    /\ coeffs["psf"] = <<>>
    /\ coeffs["balance"] = <<>>
    /\ Len(coeffs["dark current"]) > 0
    /\ coeffs["dark current"] = PickleLoad(disk[last.ret])["dark current"]

----------------------------------------------------------------------------
(* correct() with an exposure time, on profiles without a constant background *)

Ascent == [shape |-> <<1, 2>>, data |-> <<Q(1, 1), Q(40000, 1)>>]
Offset == [shape |-> <<1, 2>>, data |-> <<Q(1, 1), Q(0, 1)>>]
Exposure == [val |-> Q(2, 1)]

\* a noise record and a psf for "visible", no other record
Bare ==
    LET c1 == addNoise(InitCoeffs, Scalar, None, "a", NoneV, Today).c
    IN addPSF(c1, Zeros(<<1, 1>>), None, "a", "visible", Today).c

\* a flat field for "visible" was added and deleted again
Emptied ==
    LET c1 == addFlatField(InitCoeffs, Sensitivity, None, "a", NoneV,
                           "visible", Today).c
    IN deleteCoeff(c1, "flat field", None, "visible", Today).c

\* a dark current added with slope and intercept
Sloped ==
    addDarkCurrent(InitCoeffs, Ascent, Offset, None, "a", NoneV, Today).c

\* a flat field of the shape of the images
Shaded ==
    addFlatField(InitCoeffs, Sensitivity, None, "a", NoneV, "visible",
                 Today).c

\* a channel-stacked flat field
Tinted ==
    addFlatField(InitCoeffs, Counting(<<1, 2, 3>>), None, "a", NoneV,
                 "visible", Today).c

Fifty == Pixels(<<1, 2>>, <<Q(50, 1), Q(50, 1)>>)

ExposedProfiles == {InitCoeffs, Bare, Emptied, Sloped, Shaded, Tinted}

ExposedArgs ==
    {[images |-> i, bgImages |-> NoneV, exposure_time |-> e,
      light_spectrum |-> l, threshold |-> t, keep_size |-> TRUE, date |-> d,
      deblur |-> FALSE, denoise |-> FALSE] :
        i \in {Raw, Tall, Fifty, [list |-> <<Raw>>]}, e \in {NoneV, Exposure},
        l \in {NoLight, "IR"}, t \in {Q(0, 1), Q(1, 10)},
        d \in {[str |-> None], [str |-> BadDate],
               [map |-> [k \in {"flat field", "lens", "psf"} |-> None]]}}

InitExposed ==
    /\ coeffs \in ExposedProfiles
    /\ last = [op |-> "loadFromFile", date |-> None, raised |-> "none",
               ret |-> None]
    /\ noise_level_function = NoneV
    /\ pc = "idle"
    /\ args = NoneV
    /\ image = NoneV
    /\ ran = <<>>
    /\ disk = <<>>
    /\ idw = NoneV

\* lines 369-410 for a single image
CorrectExposed ==
    /\ pc = "idle"
    /\ \E a \in ExposedArgs :
         LET date == ResolveDates(a.date)
             r == Acquire(coeffs, noise_level_function, a.images, date,
                          "none", Today)
         IN /\ args' = [a EXCEPT !.date = date,
                                 !.light_spectrum = ResolveSpectrum(coeffs, @)]
            /\ noise_level_function' = r.nlf
            /\ ran' = <<Ran("acquire", NoTry(r))>>
            /\ IF r.raised # "none"
               THEN /\ pc' = "idle"
                    /\ image' = NoneV
                    /\ last' = Result(r.raised, None)
               ELSE /\ pc' = "shape"
                    /\ image' = r.image
                    /\ last' = Result("none", None)
    /\ UNCHANGED <<coeffs, disk, idw>>

NextExposed ==
    \/ CorrectExposed
    \/ Correct_checkShape
    \/ Correct_darkCurrent
    \/ Correct_vignetting
    \/ Correct_artefacts
    \/ Correct_blur
    \/ Correct_lens
    \/ Correct_denoise

SpecExposed == InitExposed /\ [][NextExposed]_vars

----------------------------------------------------------------------------
(* Properties of correct() with an exposure time *)

\* the one image of the call
Input(images) == IF IsSequence(images) THEN images.list[1] ELSE images

NoRecords(c) ==
    /\ c["dark current"] = <<>>
    /\ \A name \in {"flat field", "lens"} :
         \A l \in Sequences(c, name) : l = <<>>

\* a finished correct() of a single image with threshold 0, without deblur,
\* denoise or background images, on a store without dark-current, flat-field
\* or lens records
IdentityCase ==
    /\ pc = "idle"
    /\ last.op = "correct"
    /\ args.bgImages = NoneV
    /\ ~QLess(<<0, 1>>, args.threshold)
    /\ ~args.deblur
    /\ ~args.denoise
    /\ IsArray(Input(args.images))
    /\ NoRecords(coeffs)

\* C19: correct() on a single image against a store with no dark-current,
\* flat-field or lens records and with threshold=0, deblur=False,
\* denoise=False returns an image equal to the input image, for every
\* exposure time, spectrum and date argument.
C19_IdentityCorrection ==
    IdentityCase
    => /\ last.raised = "none"
       /\ last.ret = Input(args.images)

\* C19 amended: the image comes back unchanged when it passes the check
\* against reference_shape (always when none is set); when its leading two
\* dimensions differ from reference_shape the call raises instead.
C19_IdentityCorrectionWhenShapeFits ==
    IdentityCase
    => IF _checkShape(coeffs, Input(args.images)).raised = "none"
       THEN /\ last.raised = "none"
            /\ last.ret = Input(args.images)
       ELSE /\ last.raised = "Exception"
            /\ ran[Len(ran)].stage = "shape"

\* a call with an exposure time and a spectrum returned the input image
\* after the dark-current stage had failed for want of a record
C19_Witness ==
    /\ IdentityCase
    /\ last.raised = "none"
    /\ last.ret = Input(args.images)
    /\ args.exposure_time = Exposure
    /\ args.light_spectrum = "IR"
    /\ \E i \in 1..Len(ran) :
         ran[i].stage = "dark current" /\ ran[i].raised = "IndexError"

QAdd(a, b) == QSub(a, QSub(<<0, 1>>, b))
QMin(a, b) == IF QLess(b, a) THEN b ELSE a

\* min(offset + slope * exposure_time, 2^bit_depth - 1) per pixel
Synthesized(slope, offset, t, depth) ==
    [k \in 1..Len(slope.data) |->
        QMin(QAdd(offset.data[k], QMul(slope.data[k], t)),
             <<2^depth - 1, 1>>)]

\* C20: when no background images are given and the resolved dark-current
\* record was added with both a slope and an intercept array, the background
\* subtracted from the image in the dark-current stage equals, per pixel,
\* min(offset + slope * exposure_time, 2^bit_depth - 1).
C20_DarkCurrentSynthesis ==
    (/\ pc = "vignetting"
     /\ args.bgImages = NoneV
     /\ args.exposure_time # NoneV
     /\ "dark current" \in DOMAIN args.date
     /\ Len(coeffs["dark current"]) > 0)
    => LET d == _getFromDate(coeffs["dark current"],
                             args.date["dark current"], Today).ret
           before == Input(args.images)
       IN "tuple" \in DOMAIN d[3]
          => image.data =
                 [k \in 1..Len(before.data) |->
                     QSub(before.data[k],
                          Synthesized(d[3].tuple[1], d[3].tuple[2],
                                      args.exposure_time.val,
                                      coeffs["depth"])[k])]

----------------------------------------------------------------------------
(* Properties of the date mapping and the stage order *)

\* the mapping with every omitted category at None, the date "now"
Completed(a) ==
    [a EXCEPT !.date = [k \in DateKeys |->
                           IF k \in DOMAIN a.date THEN a.date[k] ELSE None]]

\* the step of the stage at pc is the one the stage takes with the dates d
StageTakenWith(a) ==
    LET s == ran'[Len(ran')]
    IN /\ Len(ran') = Len(ran) + 1
       /\ \/ /\ pc = "dark current"
             /\ \E fault \in {"none", "RuntimeError"} :
                  LET r == DarkCurrentStage(coeffs, noise_level_function,
                                            image, a, fault, Today)
                  IN s = Ran(pc, r) /\ image' = r.image
          \/ /\ pc = "blur"
             /\ \E fault \in {"none", "ImportError", "RuntimeError"} :
                  LET r == BlurStage(coeffs, image, a, fault, Today)
                  IN s = Ran(pc, r) /\ image' = r.image

\* the stage at pc looks its date up under a key the mapping omits
DateOmitted ==
    \/ pc = "dark current" /\ "dark current" \notin DOMAIN args.date
    \/ pc = "blur" /\ args.deblur /\ "psf" \notin DOMAIN args.date

\* C21: when correct() receives date as a mapping that omits a category, the
\* stage of that category still runs and uses the date "now" for its lookup:
\* it applies the newest record instead of being skipped or failing.
C21_OmittedDateDefaultsToNow ==
    [][DateOmitted => StageTakenWith(Completed(args))]_vars

\* the flat-field record the vignetting stage at pc resolves
FlatField ==
    getCoeff(coeffs, "flat field", args.light_spectrum,
             args.date["flat field"], Today)

FlatFieldResolved ==
    /\ pc = "vignetting"
    /\ "flat field" \in DOMAIN args.date
    /\ FlatField.raised = "none"
    /\ FlatField.ret # None

\* the coefficients of the array d at the k-th pixel of img: one when d has
\* the shape of img, one per channel when d is channel-stacked
CoefficientsAt(d, k, img) ==
    {d.data[n] : n \in {n \in 1..Len(d.data) :
        (n - 1) \div (Len(d.data) \div Len(img.data)) = k - 1}}

\* every pixel with a nonzero coefficient is divided by it, every pixel with
\* a zero coefficient keeps its value
Devignetted(d) ==
    \A k \in 1..Len(image.data) : \A q \in CoefficientsAt(d, k, image) :
      image'.data[k] = IF q[1] # 0 THEN QDiv(image.data[k], q)
                       ELSE image.data[k]

----------------------------------------------------------------------------
(* The store under every operation that changes it, transpose included *)

NextTranspose ==
    \/ AddDarkCurrent(Arrays \cup {Scalar}, Arrays \cup {NoneV}, {None})
    \/ AddNoise
    \/ AddFlatField(Arrays, {None})
    \/ AddLens
    \/ AddPSF
    \/ AddDeconvolutionBalance
    \/ ClearOldCalibrations
    \/ DeleteCoeff
    \/ Transpose

SpecTranspose == Init /\ [][NextTranspose]_vars

\* C23: every spectrum name that is a key of the flat field, lens, psf or
\* balance table is contained in the registered light spectra, and the
\* registered list contains no duplicates.
C23_SpectraRegistered ==
    LET reg == coeffs["light spectra"]
    IN /\ \A name \in SpectrumKeyed : \A i \in 1..Len(coeffs[name]) :
            \E n \in 1..Len(reg) : reg[n] = coeffs[name][i][1]
       /\ \A m, n \in 1..Len(reg) : reg[m] = reg[n] => m = n

\* a table holds records under two spectra, both registered, and the
\* profile was transposed
C23_Witness ==
    /\ last.op = "transpose"
    /\ Len(coeffs["light spectra"]) = 2
    /\ \E name \in SpectrumKeyed :
         /\ Len(coeffs[name]) = 2
         /\ \A i \in 1..2 : Len(coeffs[name][i][2]) = 1

Corrections == {"dark current", "vignetting", "artefacts", "blur", "lens",
                "denoise"}

\* C24: in every run of correct() the shape validation happens before any
\* correction stage, and the stages that execute do so in the order dark
\* current, vignetting, artefacts (only if threshold > 0), blur (only if
\* deblur), lens, denoise (only if denoise), each at most once and never
\* returning to an earlier stage.
C24_FixedStageOrder ==
    /\ \A i, j \in 1..Len(ran) :
         i < j => Position(ran[i].stage) < Position(ran[j].stage)
    /\ \A j \in 1..Len(ran) :
         /\ ran[j].stage \in Corrections
              => \E i \in 1..(j - 1) :
                   ran[i].stage = "shape" /\ ran[i].outcome = "ok"
         /\ ran[j].stage = "artefacts" => QLess(<<0, 1>>, args.threshold)
         /\ ran[j].stage = "blur" => args.deblur
         /\ ran[j].stage = "denoise" => args.denoise
    /\ pc # "idle" => /\ Len(ran) > 0
                      /\ Position(ran[Len(ran)].stage) < Position(pc)

\* a call with threshold > 0, deblur and denoise ran all eight steps
C24_Witness ==
    /\ pc = "idle"
    /\ last.op = "correct"
    /\ QLess(<<0, 1>>, args.threshold)
    /\ args.deblur
    /\ args.denoise
    /\ [i \in 1..Len(ran) |-> ran[i].stage] = Stages

\* C25: for any arguments and any pattern of stage failures, correct()
\* leaves every category table (records, order and payload values) and the
\* registered spectra exactly as they were before the call.
C25_PipelineNeverWritesEntries ==
    [][(pc # "idle" \/ pc' # "idle")
       => /\ Tables(coeffs') = Tables(coeffs)
          /\ coeffs'["light spectra"] = coeffs["light spectra"]]_vars

\* a call in which a stage failed and was caught came back on the profile
\* with a record in every category
C25_Witness ==
    /\ pc = "idle"
    /\ last.op = "correct"
    /\ last.raised = "none"
    /\ \E i \in 1..Len(ran) : ran[i].outcome = "caught"
    /\ \E i \in 1..Len(ran) : ran[i].stage = "blur" /\ ran[i].outcome = "ok"
    /\ Tables(coeffs) = Tables(Balanced)
    /\ \A name \in Categories : \A l \in Sequences(coeffs, name) : Len(l) = 1

----------------------------------------------------------------------------
(* correct() on image stacks while noise records are added *)

Older == [val |-> <<2, 1>>]

BurstArgs ==
    {[images |-> i, bgImages |-> NoneV, exposure_time |-> NoneV,
      light_spectrum |-> NoLight, threshold |-> Q(0, 1), keep_size |-> TRUE,
      date |-> d, deblur |-> FALSE, denoise |-> FALSE] :
        i \in {Raw, [list |-> <<Raw, Raw>>]},
        d \in {[str |-> None], [str |-> <<1, "Jan", 20, 0, 0>>],
               [map |-> [k \in {"flat field", "lens", "psf"} |-> None]]}}

\* a noise record with one of two payloads
AddNoiseRecord ==
    /\ pc = "idle"
    /\ Len(coeffs["noise"]) < MaxRecords
    /\ UNCHANGED <<pipe, disk, idw>>
    /\ \E nlf_coeff \in {Scalar, Older},
          date \in {None, <<1, "Jan", 20, 0, 0>>} :
         LET out == addNoise(coeffs, nlf_coeff, date, "a", NoneV, Today)
         IN /\ coeffs' = out.c
            /\ last' = Op("addNoise", None, out)

\* lines 369-410
CorrectBurst ==
    /\ pc = "idle"
    /\ \E a \in BurstArgs :
         \E fault \in MayFail(IsSequence(a.images), {"RuntimeError"}) :
           LET date == ResolveDates(a.date)
               r == Acquire(coeffs, noise_level_function, a.images, date,
                            fault, Today)
           IN /\ args' = [a EXCEPT !.date = date,
                                   !.light_spectrum =
                                       ResolveSpectrum(coeffs, @)]
              /\ noise_level_function' = r.nlf
              /\ ran' = <<Ran("acquire", NoTry(r))>>
              /\ IF r.raised # "none"
                 THEN /\ pc' = "idle"
                      /\ image' = NoneV
                      /\ last' = Result(r.raised, None)
                 ELSE /\ pc' = "shape"
                      /\ image' = r.image
                      /\ last' = Result("none", None)
    /\ UNCHANGED <<coeffs, disk, idw>>

NextBurst ==
    \/ AddNoiseRecord
    \/ CorrectBurst
    \/ Correct_checkShape
    \/ Correct_darkCurrent
    \/ Correct_vignetting
    \/ Correct_artefacts
    \/ Correct_blur
    \/ Correct_lens
    \/ Correct_denoise

SpecBurst == Init /\ [][NextBurst]_vars

\* the functions correct() may cache in a state: one built from a stored
\* noise record if there is any, else the estimate of the detection
Cacheable ==
    IF Len(coeffs["noise"]) > 0
    THEN {[nlf |-> "stored", coeff |-> coeffs["noise"][i][3]] :
              i \in 1..Len(coeffs["noise"])}
    ELSE {[nlf |-> "estimated"]}

\* C26: the cached noise-level function is set (from the stored noise
\* record, else from the single-time-effect estimate) only if none was
\* cached yet, and once set it is never changed by a later correct() call,
\* whatever noise date is requested or noise record is added afterwards.
C26_NoiseFunctionCachedOnce ==
    [][IF noise_level_function # NoneV
       THEN noise_level_function' = noise_level_function
       ELSE \/ noise_level_function' = NoneV
            \/ /\ pc = "idle"
               /\ IsSequence(args'.images)
               /\ noise_level_function' \in Cacheable]_vars

\* the estimate cached by an earlier call is still cached after noise
\* records were added and a later call on a stack asked for another date
C26_Witness ==
    /\ pc = "idle"
    /\ last.op = "correct"
    /\ last.raised = "none"
    /\ IsSequence(args.images)
    /\ "noise" \in DOMAIN args.date
    /\ args.date["noise"] # None
    /\ Len(coeffs["noise"]) = 2
    /\ noise_level_function = [nlf |-> "estimated"]

----------------------------------------------------------------------------
(* Properties of failing operations and of the stored shapes *)

\* C27: an add operation that fails shape validation (addFlatField, or
\* addDarkCurrent on its slope or its intercept) leaves the whole profile
\* unchanged: no record inserted, no spectrum newly registered and
\* reference_shape not newly set.
C27_FailedAddIsAtomic ==
    /\ \A arr \in Arrays, light \in Lights :
         LET out == addFlatField(coeffs, arr, None, "a", NoneV, light, Today)
         IN out.raised = "Exception" => out.c = coeffs
    /\ \A slope \in Arrays \cup {Scalar}, intercept \in Arrays \cup {NoneV} :
         LET out == addDarkCurrent(coeffs, slope, intercept, None, "a", NoneV,
                                   Today)
         IN out.raised = "Exception" => out.c = coeffs

\* C28: on every reachable profile, one where dark current or noise holds
\* no record included, clearOldCalibrations completes without raising,
\* leaves an empty category empty, and never leaves the profile with only
\* some of its categories pruned.
C28_ClearIsTotal ==
    LET out == clearOldCalibrations(coeffs)
        pruned(name) == \A l \in Sequences(out.c, name) : Len(l) <= 1
    IN /\ out.raised = "none"
       /\ \A name \in Categories :
            Sequences(coeffs, name) \subseteq {<<>>}
            => Sequences(out.c, name) \subseteq {<<>>}
       /\ \/ \A name \in {"dark current", "noise", "flat field", "lens"} :
               pruned(name)
          \/ out.c = coeffs

\* the arrays of a payload: the payload itself or the elements of a pair
ArraysOf(p) ==
    IF IsArray(p) THEN {p}
    ELSE LET pair == IF "tuple" \in DOMAIN p THEN p.tuple
                     ELSE IF "list" \in DOMAIN p THEN p.list
                     ELSE <<>>
         IN {pair[i] : i \in {i \in 1..Len(pair) : IsArray(pair[i])}}

\* the arrays stored through addDarkCurrent and addFlatField
StoredArrays(c) ==
    UNION {UNION {ArraysOf(l[i][3]) : i \in 1..Len(l)} :
              l \in Sequences(c, "dark current")
                    \cup Sequences(c, "flat field")}

\* C29: every array that was stored through addDarkCurrent or addFlatField
\* (2-D or channel-stacked) has leading two dimensions equal to the leading
\* two dimensions of the current reference_shape.
C29_StoredShapesMatchReference ==
    \A a \in StoredArrays(coeffs) :
      /\ coeffs["shape"] # None
      /\ Lead(a.shape) = Lead(coeffs["shape"])

----------------------------------------------------------------------------
(* interpolate2dStructuredIDW(grid, mask, kernel) with power=2, fx=fy=1:   *)
(* one action per pass of the pixel loop and of the neighbour loop of      *)
(* _calc.  Indices are the 0-based indices of the code.                    *)

MaxGrid == 3
MaxKernel == 2
MaxMasked == 1

Cells(gx, gy) == (0..gx - 1) \X (0..gy - 1)

\* weights[xi + kernel, yi + kernel] = 1 / dist ** (0.5 * power); the entry
\* of dist = 0 is left as np.empty made it
Weights(kernel) ==
    [n \in (0..2 * kernel) \X (0..2 * kernel) |->
        LET xi == n[1] - kernel
            yi == n[2] - kernel
            dist == xi * xi + yi * yi
        IN IF dist # 0 THEN Q(1, dist) ELSE NaN]

\* what a read beyond the end of an array compiled with nopython=True and
\* no bounds check can give
GarbageMask == BOOLEAN
GarbageGrid == {Q(0, 1), Q(9, 1)}

IdwInputs ==
    {[gx |-> gx, gy |-> gy, kernel |-> kernel,
      mask |-> [n \in Cells(gx, gy) |-> n \in masked],
      grid |-> [n \in Cells(gx, gy) |-> Q(n[1] * gy + n[2] + 1, 1)]] :
        gx \in 1..MaxGrid, gy \in 1..MaxGrid, kernel \in 1..MaxKernel,
        masked \in {m \in SUBSET ((0..MaxGrid - 1) \X (0..MaxGrid - 1)) :
                       Cardinality(m) <= MaxMasked}}

\* the locals of _calc at the pixel (i, j), before a neighbour loop
AtPixel(in, grid, i, j) ==
    [gx |-> in.gx, gy |-> in.gy, kernel |-> in.kernel, mask |-> in.mask,
     weights |-> Weights(in.kernel), grid |-> grid, at |-> "pixel",
     i |-> i, j |-> j, xmn |-> 0, xmx |-> 0, ymn |-> 0, ymx |-> 0,
     xi |-> 0, yi |-> 0, sumWi |-> Q(0, 1), value |-> Q(0, 1), c |-> 0]

InitIDW ==
    /\ coeffs = InitCoeffs
    /\ last = [op |-> "__init__", date |-> None, raised |-> "none", ret |-> None]
    /\ noise_level_function = NoneV
    /\ pc = "idle"
    /\ args = NoneV
    /\ image = NoneV
    /\ ran = <<>>
    /\ disk = <<>>
    /\ \E in \in IdwInputs :
         idw = AtPixel(in, in.grid, 0, 0)

\* for i in range(gx): for j in range(gy): the pixel after (i, j)
NextPixel(w, grid) ==
    IF w.j + 1 < w.gy THEN AtPixel(w, grid, w.i, w.j + 1)
    ELSE AtPixel(w, grid, w.i + 1, 0)

\* lines 31-49: the head of the pixel loop, up to the neighbour loop
Calc_pixel ==
    /\ idw # NoneV
    /\ idw.at = "pixel"
    /\ idw' =
         IF idw.i >= idw.gx THEN [idw EXCEPT !.at = "done"]
         ELSE IF ~idw.mask[<<idw.i, idw.j>>] THEN NextPixel(idw, idw.grid)
         ELSE LET xmn == IF idw.i - idw.kernel < 0 THEN 0
                         ELSE idw.i - idw.kernel
                  xmx == IF idw.i + idw.kernel > idw.gx THEN idw.gx
                         ELSE idw.i + idw.kernel
                  ymn == IF idw.j - idw.kernel < 0 THEN 0
                         ELSE idw.j - idw.kernel
                  ymx == IF idw.j + idw.kernel > idw.gy THEN idw.gy
                         ELSE idw.j + idw.kernel
              IN [idw EXCEPT !.at = "neighbour",
                             !.xmn = xmn, !.xmx = xmx, !.ymn = ymn,
                             !.ymx = ymx, !.xi = xmn, !.yi = ymn,
                             !.sumWi = Q(0, 1), !.value = Q(0, 1), !.c = 0]
    /\ UNCHANGED <<coeffs, last, pipe, disk>>

InGrid(w, x, y) == x \in 0..w.gx - 1 /\ y \in 0..w.gy - 1

\* lines 55-63: one pass of the neighbour loop at (xi, yi), and after the
\* last pass the assignment to grid[i, j].  A read outside the arrays gives
\* garbage, or IndexError when bounds are checked.
Calc_neighbour ==
    /\ idw # NoneV
    /\ idw.at = "neighbour"
    /\ \E m \in IF InGrid(idw, idw.xi, idw.yi)
                THEN {idw.mask[<<idw.xi, idw.yi>>]} ELSE GarbageMask,
          g \in IF InGrid(idw, idw.xi, idw.yi)
                THEN {idw.grid[<<idw.xi, idw.yi>>]} ELSE GarbageGrid,
          checked \in IF InGrid(idw, idw.xi, idw.yi) THEN {FALSE}
                      ELSE BOOLEAN :
         LET reads == idw.xi # idw.i \/ idw.yi # idw.j
             taken == reads /\ ~m
             wi == idw.weights[<<idw.xi - idw.i + idw.kernel,
                                 idw.yi - idw.j + idw.kernel>>]
             sumWi == IF taken THEN QAdd(idw.sumWi, wi) ELSE idw.sumWi
             value == IF taken THEN QAdd(idw.value, QMul(wi, g))
                      ELSE idw.value
             grid == IF sumWi[1] # 0
                     THEN [idw.grid EXCEPT ![<<idw.i, idw.j>>] =
                              QDiv(value, sumWi)]
                     ELSE idw.grid
         IN idw' =
              IF reads /\ checked THEN [idw EXCEPT !.at = "raised"]
              ELSE IF idw.yi < idw.ymx
              THEN [idw EXCEPT !.yi = @ + 1, !.sumWi = sumWi,
                               !.value = value, !.c = @ + 1]
              ELSE IF idw.xi < idw.xmx
              THEN [idw EXCEPT !.xi = @ + 1, !.yi = idw.ymn,
                               !.sumWi = sumWi, !.value = value, !.c = @ + 1]
              ELSE NextPixel(idw, grid)
    /\ UNCHANGED <<coeffs, last, pipe, disk>>

NextIDW ==
    \/ Calc_pixel
    \/ Calc_neighbour

SpecIDW == InitIDW /\ [][NextIDW]_vars

\* C30: for every grid size, kernel size and masked cell (i, j), every
\* neighbour index (xi, yi) used to read mask and grid satisfies
\* 0 <= xi < grid.shape[0] and 0 <= yi < grid.shape[1], and every index
\* into the weights table lies in 0..2*kernel.
C30_NeighbourIndicesInRange ==
    (idw.at = "neighbour" /\ (idw.xi # idw.i \/ idw.yi # idw.j))
    => /\ 0 <= idw.xi /\ idw.xi < idw.gx
       /\ 0 <= idw.yi /\ idw.yi < idw.gy
       /\ idw.xi - idw.i + idw.kernel \in 0..2 * idw.kernel
       /\ idw.yi - idw.j + idw.kernel \in 0..2 * idw.kernel

====
